---------------------------- MODULE Spec2Model ----------------------------
(***************************************************************************)
(* Model of the keyword optimizer agent                                    *)
(* (etsy-agents/agents/keyword_optimizer/keyword_optimizer_agent.py) and   *)
(* of the market research agent                                            *)
(* (EtsyAnalyzer/etsy-agents/agents/market_research/                       *)
(* market_research_agent.py).                                              *)
(*                                                                         *)
(* Representation notes                                                    *)
(*  - A Python str is a sequence of one-character strings, so that         *)
(*    str.lower() and str.strip() are computed character by character.     *)
(*  - A float ratio frequency / total_listings is the pair                 *)
(*    [num, den]; "ratio > 0.7" is num * 10 > 7 * den.  IEEE division is   *)
(*    correctly rounded, so for the operand sizes used here the float      *)
(*    comparison and the exact comparison agree (7/10 rounds to the same   *)
(*    double as the literal 0.7).                                          *)
(*  - relevance_score is kept in tenths (80 stands for 8.0): the penalty   *)
(*    relevance * 0.8 is relevance * 8 tenths.  For relevance in 1..10     *)
(*    the float products compare with each other and with the integers     *)
(*    exactly as the tenths do.                                            *)
(*  - avg_price is kept in cents, seasonal_factor in tenths.               *)
(***************************************************************************)
EXTENDS Integers, Sequences, FiniteSets, TLC

VARIABLES
    keyword_performance_db,  \* KeywordOptimizerAgent.keyword_performance_db
    config,                  \* EtsyMarketResearcher.config
    capability_profile,      \* EtsyMarketResearcher.capability_profile
    pc,                      \* "call" before the method runs, then "done"
                             \* (it returned) or "raised" (an exception left it)
    op,                      \* the method being called
    args,                    \* its arguments
    ret,                     \* its return value (or the exception it raised)
    cache_dir,               \* the files of CacheManager.cache_dir
    clock,                   \* time.time(), in hours
    performance_history,     \* EtsySEOOptimizer.performance_history
    current_product_analysis \* ProductExpanderAgent.current_product_analysis

\* the fields of the utilities and of the agents outside the scoring core
utilities == <<cache_dir, clock, performance_history, current_product_analysis>>

vars == <<keyword_performance_db, config, capability_profile, pc, op, args, ret,
          utilities>>

\* the cache directory is empty and no other agent has run
InitUtilities ==
    /\ cache_dir = <<>>
    /\ clock = 0
    /\ performance_history = <<>>
    /\ current_product_analysis = <<>>

(***************************************************************************)
(* Bounds of the model.                                                    *)
(***************************************************************************)
MaxListings == 10
MaxFrequency == 10
MaxPortfolio == 2
MaxTags == 3

(***************************************************************************)
(* Python str helpers.                                                     *)
(***************************************************************************)
UpperToLower ==
    ("A" :> "a") @@ ("B" :> "b") @@ ("C" :> "c") @@ ("D" :> "d") @@
    ("E" :> "e") @@ ("F" :> "f") @@ ("G" :> "g") @@ ("H" :> "h") @@
    ("I" :> "i") @@ ("J" :> "j") @@ ("K" :> "k") @@ ("L" :> "l") @@
    ("M" :> "m") @@ ("N" :> "n") @@ ("O" :> "o") @@ ("P" :> "p") @@
    ("Q" :> "q") @@ ("R" :> "r") @@ ("S" :> "s") @@ ("T" :> "t") @@
    ("U" :> "u") @@ ("V" :> "v") @@ ("W" :> "w") @@ ("X" :> "x") @@
    ("Y" :> "y") @@ ("Z" :> "z")

Whitespace == {" ", "\t", "\n"}

\* str.lower()
Lower(s) ==
    [i \in 1..Len(s) |->
        IF s[i] \in DOMAIN UpperToLower THEN UpperToLower[s[i]] ELSE s[i]]

\* str.strip(): drops the leading and the trailing whitespace only
Strip(s) ==
    LET keep == {i \in 1..Len(s) : s[i] \notin Whitespace}
    IN  IF keep = {} THEN <<>>
        ELSE LET lo == CHOOSE i \in keep : \A j \in keep : i <= j
                 hi == CHOOSE i \in keep : \A j \in keep : j <= i
             IN  SubSeq(s, lo, hi)

\* str.upper(), used to build the input variants of a keyword
Upper(s) ==
    [i \in 1..Len(s) |->
        IF \E u \in DOMAIN UpperToLower : UpperToLower[u] = s[i]
        THEN CHOOSE u \in DOMAIN UpperToLower : UpperToLower[u] = s[i]
        ELSE s[i]]

\* str.capitalize() on a lower-case string
Capitalize(s) ==
    IF s = <<>> THEN s ELSE Upper(SubSeq(s, 1, 1)) \o SubSeq(s, 2, Len(s))

(***************************************************************************)
(* KeywordOptimizerAgent: the static tables.                               *)
(***************************************************************************)
_initialize_keyword_database ==
    (<<"r","e","s","i","s","t">> :> [competition |-> "High", relevance |-> 9, trend |-> "stable"])
    @@ (<<"p","r","o","t","e","s","t">> :> [competition |-> "High", relevance |-> 8, trend |-> "declining"])
    @@ (<<"p","o","l","i","t","i","c","a","l">> :> [competition |-> "High", relevance |-> 7, trend |-> "stable"])
    @@ (<<"g","o","v","e","r","n","m","e","n","t">> :> [competition |-> "Medium", relevance |-> 9, trend |-> "rising"])
    @@ (<<"b","u","r","e","a","u","c","r","a","t">> :> [competition |-> "Low", relevance |-> 10, trend |-> "rising"])
    @@ (<<"c","i","v","i","l"," ","s","e","r","v","a","n","t">> :> [competition |-> "Low", relevance |-> 9, trend |-> "rising"])
    @@ (<<"f","e","d","e","r","a","l"," ","e","m","p","l","o","y","e","e">> :> [competition |-> "Medium", relevance |-> 10, trend |-> "rising"])
    @@ (<<"t"," ","s","h","i","r","t">> :> [competition |-> "High", relevance |-> 6, trend |-> "stable"])
    @@ (<<"t","s","h","i","r","t">> :> [competition |-> "High", relevance |-> 6, trend |-> "stable"])
    @@ (<<"s","h","i","r","t">> :> [competition |-> "High", relevance |-> 7, trend |-> "stable"])
    @@ (<<"t","e","e">> :> [competition |-> "Medium", relevance |-> 8, trend |-> "rising"])
    @@ (<<"a","p","p","a","r","e","l">> :> [competition |-> "Medium", relevance |-> 6, trend |-> "stable"])
    @@ (<<"c","l","o","t","h","i","n","g">> :> [competition |-> "High", relevance |-> 5, trend |-> "declining"])
    @@ (<<"s","t","i","c","k","e","r">> :> [competition |-> "Medium", relevance |-> 9, trend |-> "rising"])
    @@ (<<"d","e","c","a","l">> :> [competition |-> "Low", relevance |-> 8, trend |-> "stable"])
    @@ (<<"m","u","g">> :> [competition |-> "High", relevance |-> 7, trend |-> "stable"])
    @@ (<<"c","u","p">> :> [competition |-> "High", relevance |-> 6, trend |-> "declining"])
    @@ (<<"h","a","t">> :> [competition |-> "Medium", relevance |-> 8, trend |-> "stable"])
    @@ (<<"c","a","p">> :> [competition |-> "Medium", relevance |-> 7, trend |-> "stable"])
    @@ (<<"g","i","f","t">> :> [competition |-> "High", relevance |-> 8, trend |-> "stable"])
    @@ (<<"p","r","e","s","e","n","t">> :> [competition |-> "Medium", relevance |-> 6, trend |-> "declining"])
    @@ (<<"b","i","r","t","h","d","a","y"," ","g","i","f","t">> :> [competition |-> "High", relevance |-> 7, trend |-> "stable"])
    @@ (<<"r","e","t","i","r","e","m","e","n","t"," ","g","i","f","t">> :> [competition |-> "Medium", relevance |-> 9, trend |-> "rising"])
    @@ (<<"c","o","w","o","r","k","e","r"," ","g","i","f","t">> :> [competition |-> "Medium", relevance |-> 8, trend |-> "rising"])
    @@ (<<"f","u","n","n","y">> :> [competition |-> "High", relevance |-> 8, trend |-> "stable"])
    @@ (<<"h","u","m","o","r">> :> [competition |-> "Medium", relevance |-> 9, trend |-> "rising"])
    @@ (<<"s","a","r","c","a","s","t","i","c">> :> [competition |-> "Low", relevance |-> 9, trend |-> "rising"])
    @@ (<<"s","a","t","i","r","e">> :> [competition |-> "Low", relevance |-> 10, trend |-> "rising"])
    @@ (<<"w","i","t","t","y">> :> [competition |-> "Low", relevance |-> 8, trend |-> "stable"])
    @@ (<<"b","e","a","u","t","i","f","u","l">> :> [competition |-> "High", relevance |-> 2, trend |-> "declining"])
    @@ (<<"p","e","r","f","e","c","t">> :> [competition |-> "High", relevance |-> 2, trend |-> "declining"])
    @@ (<<"a","m","a","z","i","n","g">> :> [competition |-> "High", relevance |-> 2, trend |-> "declining"])
    @@ (<<"a","w","e","s","o","m","e">> :> [competition |-> "High", relevance |-> 3, trend |-> "declining"])
    @@ (<<"g","r","e","a","t">> :> [competition |-> "High", relevance |-> 2, trend |-> "declining"])
    @@ (<<"b","e","s","t">> :> [competition |-> "High", relevance |-> 3, trend |-> "stable"])
    @@ (<<"q","u","a","l","i","t","y">> :> [competition |-> "Medium", relevance |-> 4, trend |-> "stable"])
    @@ (<<"d","e","e","p"," ","s","t","a","t","e">> :> [competition |-> "Low", relevance |-> 10, trend |-> "rising"])
    @@ (<<"r","o","g","u","e">> :> [competition |-> "Low", relevance |-> 10, trend |-> "rising"])
    @@ (<<"o","p","s","e","c">> :> [competition |-> "Low", relevance |-> 10, trend |-> "rising"])
    @@ (<<"n","a","t","o">> :> [competition |-> "Low", relevance |-> 9, trend |-> "rising"])
    @@ (<<"c","y","b","e","r","s","e","c","u","r","i","t","y">> :> [competition |-> "Medium", relevance |-> 9, trend |-> "rising"])
    @@ (<<"c","l","a","s","s","i","f","i","e","d">> :> [competition |-> "Low", relevance |-> 8, trend |-> "rising"])

replacements ==
    (<<"p","o","l","i","t","i","c","a","l">> :> <<<<"g","o","v","e","r","n","m","e","n","t"," ","h","u","m","o","r">>, <<"c","i","v","i","c"," ","s","a","t","i","r","e">>, <<"b","u","r","e","a","u","c","r","a","t"," ","g","i","f","t">>>>)
    @@ (<<"f","u","n","n","y">> :> <<<<"w","i","t","t","y">>, <<"s","a","r","c","a","s","t","i","c">>, <<"h","u","m","o","r">>>>)
    @@ (<<"p","r","o","t","e","s","t">> :> <<<<"r","e","s","i","s","t","a","n","c","e"," ","g","e","a","r">>, <<"a","c","t","i","v","i","s","t"," ","a","p","p","a","r","e","l">>, <<"d","i","s","s","e","n","t">>>>)
    @@ (<<"t"," ","s","h","i","r","t">> :> <<<<"t","e","e">>, <<"s","h","i","r","t"," ","d","e","s","i","g","n">>, <<"a","p","p","a","r","e","l">>>>)
    @@ (<<"t","s","h","i","r","t">> :> <<<<"t","e","e">>, <<"g","r","a","p","h","i","c"," ","s","h","i","r","t">>, <<"s","t","a","t","e","m","e","n","t"," ","s","h","i","r","t">>>>)
    @@ (<<"b","e","a","u","t","i","f","u","l">> :> <<>>)
    @@ (<<"p","e","r","f","e","c","t">> :> <<>>)
    @@ (<<"a","m","a","z","i","n","g">> :> <<>>)
    @@ (<<"a","w","e","s","o","m","e">> :> <<<<"w","i","t","t","y">>, <<"c","l","e","v","e","r">>>>)
    @@ (<<"g","r","e","a","t">> :> <<<<"q","u","a","l","i","t","y">>, <<"p","r","e","m","i","u","m">>>>)
    @@ (<<"c","l","o","t","h","i","n","g">> :> <<<<"a","p","p","a","r","e","l">>, <<"s","h","i","r","t">>, <<"t","e","e">>>>)
    @@ (<<"c","u","p">> :> <<<<"m","u","g">>, <<"d","r","i","n","k","w","a","r","e">>, <<"t","u","m","b","l","e","r">>>>)
    @@ (<<"p","r","e","s","e","n","t">> :> <<<<"g","i","f","t">>, <<"c","o","w","o","r","k","e","r"," ","g","i","f","t">>, <<"r","e","t","i","r","e","m","e","n","t"," ","g","i","f","t">>>>)
    @@ (<<"r","e","s","i","s","t">> :> <<<<"r","e","s","i","s","t","a","n","c","e"," ","g","e","a","r">>, <<"a","c","t","i","v","i","s","t">>, <<"d","i","s","s","e","n","t">>>>)
    @@ (<<"s","a","v","e"," ","d","e","m","o","c","r","a","c","y">> :> <<<<"d","e","m","o","c","r","a","c","y"," ","d","e","f","e","n","d","e","r">>, <<"c","i","v","i","c"," ","e","n","g","a","g","e","m","e","n","t">>, <<"v","o","t","i","n","g"," ","r","i","g","h","t","s">>>>)

\* the default record of keyword_performance_db.get(keyword_clean, {...})
DefaultKeywordData ==
    [competition |-> "Unknown", relevance |-> 5, trend |-> "stable"]

QualityDescriptors ==
    { <<"b","e","a","u","t","i","f","u","l">>, <<"p","e","r","f","e","c","t">>,
      <<"a","m","a","z","i","n","g">>, <<"a","w","e","s","o","m","e">>,
      <<"g","r","e","a","t">> }

\* frequency_ratio > tenths / 10
RatioAbove(frequency_ratio, tenths) ==
    frequency_ratio.num * 10 > tenths * frequency_ratio.den

\* a record that stands for an exception leaving the method
Raised(v) == "raised" \in DOMAIN v

\* dict.get(key, default)
DictGet(d, key, default) == IF key \in DOMAIN d THEN d[key] ELSE default

\* variant: the quality descriptors never get a replacement
_get_replacement_suggestions_descriptors(keyword) ==
    IF keyword \in QualityDescriptors THEN <<>>
    ELSE DictGet(replacements, keyword, <<>>)

\* _get_replacement_suggestions(keyword)
_get_replacement_suggestions(keyword) == DictGet(replacements, keyword, <<>>)

\* variant: the first rule tests relevance < 3
_determine_action_below3(keyword, keyword_data, frequency_ratio) ==
    LET relevance == keyword_data.relevance
        competition == keyword_data.competition
        trend == keyword_data.trend
    IN  IF relevance < 3
        THEN <<"Remove", "Low relevance">>
        ELSE IF keyword \in QualityDescriptors /\ relevance <= 4
        THEN <<"Remove", "Quality descriptor">>
        ELSE IF competition = "High" /\ trend = "declining" /\ relevance <= 7
        THEN <<"Replace", "High competition, declining trend">>
        ELSE IF RatioAbove(frequency_ratio, 8) /\ relevance <= 8
        THEN <<"Replace", "Overused">>
        ELSE IF relevance >= 8 /\ trend \in {"stable", "rising"}
        THEN <<"Keep", "Strong performer">>
        ELSE <<"Keep", "Moderate performance">>

\* variant: the overuse rule comes before the declining-competition rule
\* and tests relevance < 8
_determine_action_overuse7(keyword, keyword_data, frequency_ratio) ==
    LET relevance == keyword_data.relevance
        competition == keyword_data.competition
        trend == keyword_data.trend
    IN  IF relevance <= 3
        THEN <<"Remove", "Low relevance">>
        ELSE IF keyword \in QualityDescriptors /\ relevance <= 4
        THEN <<"Remove", "Quality descriptor">>
        ELSE IF RatioAbove(frequency_ratio, 8) /\ relevance < 8
        THEN <<"Replace", "Overused">>
        ELSE IF competition = "High" /\ trend = "declining" /\ relevance <= 7
        THEN <<"Replace", "High competition, declining trend">>
        ELSE IF relevance >= 8 /\ trend \in {"stable", "rising"}
        THEN <<"Keep", "Strong performer">>
        ELSE <<"Keep", "Moderate performance">>

\* _determine_action(keyword, keyword_data, frequency_ratio): the action and
\* a tag for the reasoning text of the rule that fired
_determine_action(keyword, keyword_data, frequency_ratio) ==
    LET relevance == keyword_data.relevance
        competition == keyword_data.competition
        trend == keyword_data.trend
    IN  IF relevance <= 3
        THEN <<"Remove", "Low relevance">>
        ELSE IF keyword \in QualityDescriptors /\ relevance <= 4
        THEN <<"Remove", "Quality descriptor">>
        ELSE IF competition = "High" /\ trend = "declining" /\ relevance <= 7
        THEN <<"Replace", "High competition, declining trend">>
        ELSE IF RatioAbove(frequency_ratio, 8) /\ relevance <= 8
        THEN <<"Replace", "Overused">>
        ELSE IF relevance >= 8 /\ trend \in {"stable", "rising"}
        THEN <<"Keep", "Strong performer">>
        ELSE <<"Keep", "Moderate performance">>

\* variant: the penalty factor is 0.9
AdjustRelevance_factor9(relevance, frequency_ratio) ==
    IF RatioAbove(frequency_ratio, 7) THEN relevance * 9 ELSE relevance * 10

\* variant: the penalty starts at a ratio of 0.7 (>= instead of >)
AdjustRelevance_atLeast(relevance, frequency_ratio) ==
    IF frequency_ratio.num * 10 >= 7 * frequency_ratio.den
    THEN relevance * 8 ELSE relevance * 10

\* relevance_score after the over-usage penalty, in tenths
AdjustRelevance(relevance, frequency_ratio) ==
    IF RatioAbove(frequency_ratio, 7) THEN relevance * 8 ELSE relevance * 10

\* variant: the key is lower-cased but not stripped
KeywordClean_noStrip(keyword) == Lower(keyword)

\* the lookup key of _analyze_single_keyword
KeywordClean(keyword) == Strip(Lower(keyword))

\* _analyze_single_keyword(keyword, frequency, total_listings)
_analyze_single_keyword(db, keyword, frequency, total_listings) ==
    IF total_listings = 0
    THEN [raised |-> "ZeroDivisionError"]
    ELSE
    LET keyword_clean == KeywordClean(keyword)
        keyword_data == DictGet(db, keyword_clean, DefaultKeywordData)
        frequency_ratio == [num |-> frequency, den |-> total_listings]
        determined == _determine_action(keyword_clean, keyword_data, frequency_ratio)
    IN  [ keyword |-> keyword,
          frequency_across_listings |-> frequency,
          estimated_competition |-> keyword_data.competition,
          relevance_score |-> AdjustRelevance(keyword_data.relevance, frequency_ratio),
          replacement_suggestions |-> _get_replacement_suggestions(keyword_clean),
          action_recommendation |-> determined[1],
          reasoning |-> determined[2] ]

(***************************************************************************)
(* analyze_keyword_portfolio                                               *)
(***************************************************************************)
RECURSIVE AllKeywords(_)
\* all_keywords: the tags of every listing, in order
AllKeywords(listings_data) ==
    IF listings_data = <<>> THEN <<>>
    ELSE AllKeywords(SubSeq(listings_data, 1, Len(listings_data) - 1))
         \o DictGet(listings_data[Len(listings_data)], "tags", <<>>)

\* keyword_frequency[k]: Counter incremented once per tag occurrence whose
\* lower-cased text is k
KeywordFrequency(listings_data, k) ==
    LET all == AllKeywords(listings_data)
    IN  Cardinality({i \in 1..Len(all) : Lower(all[i]) = k})

\* unique_keywords = set(k.lower() for k in all_keywords)
UniqueKeywords(listings_data) ==
    LET all == AllKeywords(listings_data)
    IN  {Lower(all[i]) : i \in 1..Len(all)}

\* variant: the frequency enters the key without its minus sign
SortKeyLess_plusFrequency(a, b) ==
    \/ a.relevance_score < b.relevance_score
    \/ /\ a.relevance_score = b.relevance_score
       /\ a.frequency_across_listings < b.frequency_across_listings

\* key=lambda x: (x.relevance_score, -x.frequency_across_listings), compared
\* as Python compares tuples
SortKeyLess(a, b) ==
    \/ a.relevance_score < b.relevance_score
    \/ /\ a.relevance_score = b.relevance_score
       /\ (0 - a.frequency_across_listings) < (0 - b.frequency_across_listings)

RECURSIVE SortReverse(_)
\* list.sort(key=..., reverse=True): descending, equal keys keep their order
SortReverse(seq) ==
    IF seq = <<>> THEN <<>>
    ELSE LET sorted == SortReverse(SubSeq(seq, 1, Len(seq) - 1))
             x == seq[Len(seq)]
             n == Cardinality({i \in 1..Len(sorted) : ~SortKeyLess(sorted[i], x)})
         IN  SubSeq(sorted, 1, n) \o <<x>> \o SubSeq(sorted, n + 1, Len(sorted))

\* the orders in which "for keyword in unique_keywords" can visit a set
IterationOrders(S) ==
    {o \in [1..Cardinality(S) -> S] : \A i, j \in DOMAIN o : o[i] = o[j] => i = j}

\* variant: the listing that is being counted is left out of the total
keyword_analyses_totalMinusOne(db, listings_data, order) ==
    [i \in 1..Len(order) |->
        _analyze_single_keyword(db, order[i],
                                KeywordFrequency(listings_data, order[i]),
                                Len(listings_data) - 1)]

\* keyword_analyses before the sort: one _analyze_single_keyword call per
\* unique keyword, the set being visited in order
keyword_analyses(db, listings_data, order) ==
    [i \in 1..Len(order) |->
        _analyze_single_keyword(db, order[i],
                                KeywordFrequency(listings_data, order[i]),
                                Len(listings_data))]

\* analyze_keyword_portfolio(listings_data), the set being visited in order
analyze_keyword_portfolio(db, listings_data, order) ==
    SortReverse(keyword_analyses(db, listings_data, order))

(***************************************************************************)
(* Inputs of the keyword optimizer.                                        *)
(***************************************************************************)
\* the spellings of one keyword that differ in case or outer whitespace
Variants(s) ==
    {s, Upper(s), Capitalize(s), <<" ">> \o s, s \o <<" ">>,
     <<"\t">> \o Upper(s) \o <<" ">>}

UnknownKeyword == <<"n","e","w">>

BaseKeywords ==
    DOMAIN _initialize_keyword_database \cup DOMAIN replacements
    \cup {UnknownKeyword}

KeywordInputs == UNION {Variants(s) : s \in BaseKeywords}

KeywordDataInputs ==
    [competition : {"High", "Medium", "Low", "Unknown"},
     relevance : 1..10,
     trend : {"rising", "stable", "declining"}]

DetermineActionKeywords ==
    { <<"b","e","a","u","t","i","f","u","l">>, <<"a","w","e","s","o","m","e">>,
      <<"g","i","f","t">> }

\* one keyword in two spellings: plain, and capitalised after a blank
PortfolioTags ==
    { <<"g","i","f","t">>, <<" ","G","i","f","t">> }

SeqsUpTo(S, n) == UNION {[1..k -> S] : k \in 0..n}

PortfolioInputs ==
    SeqsUpTo([tags : SeqsUpTo(PortfolioTags, MaxTags)], MaxPortfolio)

(***************************************************************************)
(* State machine.  A behaviour is one call of one method on the agent as   *)
(* constructed: Init draws the method and its arguments, the method's      *)
(* action computes the return value.                                       *)
(***************************************************************************)
NoConfig == [excluded_categories |-> {}, preferred_categories |-> {}]

NoProfile ==
    [skills |-> {}, tools_not_available |-> {}, learning_capacity |-> "Medium"]

KeywordCalls ==
    {<<"_determine_action", <<keyword, keyword_data, [num |-> num, den |-> den]>>>> :
        keyword \in DetermineActionKeywords, keyword_data \in KeywordDataInputs,
        num \in 0..MaxFrequency, den \in 1..MaxListings}
    \cup
    {<<"_analyze_single_keyword", <<keyword, frequency, total_listings>>>> :
        keyword \in KeywordInputs, frequency \in 0..MaxFrequency,
        total_listings \in 0..MaxListings}
    \cup
    {<<"analyze_keyword_portfolio", <<listings_data>>>> :
        listings_data \in PortfolioInputs}

\* only the keyword optimizer is constructed: there is no market researcher
InitKeyword ==
    /\ keyword_performance_db = _initialize_keyword_database
    /\ config = NoConfig
    /\ capability_profile = NoProfile
    /\ InitUtilities
    /\ pc = "call"
    /\ \E c \in KeywordCalls : op = c[1] /\ args = c[2]
    /\ ret = <<>>

Call_determine_action ==
    /\ pc = "call"
    /\ op = "_determine_action"
    /\ ret' = _determine_action(args[1], args[2], args[3])
    /\ pc' = "done"
    /\ UNCHANGED <<keyword_performance_db, config, capability_profile, op, args,
                   utilities>>

\* variant: the penalised relevance is written back into the catalog
Call_analyze_single_keyword_writeBack ==
    /\ pc = "call"
    /\ op = "_analyze_single_keyword"
    /\ LET r == _analyze_single_keyword(keyword_performance_db,
                                        args[1], args[2], args[3])
           keyword_clean == KeywordClean(args[1])
       IN  IF Raised(r)
           THEN /\ pc' = "raised" /\ ret' = r.raised
                /\ UNCHANGED keyword_performance_db
           ELSE /\ pc' = "done" /\ ret' = r
                /\ keyword_performance_db' =
                      IF keyword_clean \in DOMAIN keyword_performance_db
                      THEN [keyword_performance_db EXCEPT
                               ![keyword_clean].relevance = r.relevance_score \div 10]
                      ELSE keyword_performance_db
    /\ UNCHANGED <<config, capability_profile, op, args, utilities>>

Call_analyze_single_keyword ==
    /\ pc = "call"
    /\ op = "_analyze_single_keyword"
    /\ LET r == _analyze_single_keyword(keyword_performance_db,
                                        args[1], args[2], args[3])
       IN  IF Raised(r)
           THEN pc' = "raised" /\ ret' = r.raised
           ELSE pc' = "done" /\ ret' = r
    /\ UNCHANGED <<keyword_performance_db, config, capability_profile, op, args,
                   utilities>>

Call_analyze_keyword_portfolio ==
    /\ pc = "call"
    /\ op = "analyze_keyword_portfolio"
    /\ \E order \in IterationOrders(UniqueKeywords(args[1])) :
          IF \E i \in 1..Len(order) :
                Raised(keyword_analyses(keyword_performance_db, args[1], order)[i])
          THEN pc' = "raised" /\ ret' = "ZeroDivisionError"
          ELSE /\ pc' = "done"
               /\ ret' = analyze_keyword_portfolio(keyword_performance_db,
                                                   args[1], order)
    /\ UNCHANGED <<keyword_performance_db, config, capability_profile, op, args,
                   utilities>>

NextKeyword ==
    \/ Call_determine_action
    \/ Call_analyze_single_keyword
    \/ Call_analyze_keyword_portfolio

SpecKeyword == InitKeyword /\ [][NextKeyword]_vars

(***************************************************************************)
(* Properties of the keyword optimizer.                                    *)
(***************************************************************************)
Done(method) == pc = "done" /\ op = method

\* the catalog record a keyword written in base spelling has
CatalogRecord(base) ==
    IF base \in DOMAIN _initialize_keyword_database
    THEN _initialize_keyword_database[base]
    ELSE DefaultKeywordData

\* the keyword of which an input spelling is a variant
BaseOf ==
    [k \in KeywordInputs |-> CHOOSE base \in BaseKeywords : k \in Variants(base)]

Satire == <<"s","a","t","i","r","e">>
Beautiful == <<"b","e","a","u","t","i","f","u","l">>
Awesome == <<"a","w","e","s","o","m","e">>
Gift == <<"g","i","f","t">>

\* C1: every keyword whose catalog relevance is at most 3 is assessed
\* "Remove" by _analyze_single_keyword, for every frequency and every
\* total_listings > 0.
C1_LowRelevanceRemoved ==
    (/\ Done("_analyze_single_keyword")
     /\ args[3] > 0
     /\ CatalogRecord(BaseOf[args[1]]).relevance <= 3)
    => ret.action_recommendation = "Remove"

\* "awesome" (relevance 3, High, declining) used in 9 of 10 listings
C1_Witness ==
    /\ Done("_analyze_single_keyword")
    /\ args = <<Awesome, 9, 10>>
    /\ ret.action_recommendation = "Remove"

\* C2 as stated: "satire" at 9 of 10 listings has adjusted relevance 8.0
\* and the action Replace.
C2_SatireReplace ==
    (Done("_analyze_single_keyword") /\ args = <<Satire, 9, 10>>)
    => (ret.relevance_score = 80 /\ ret.action_recommendation = "Replace")

\* C2 amended: "satire" at 9 of 10 listings has adjusted relevance 8.0 and
\* the action Keep, the rules being decided on the catalog relevance 10.
C2_SatireKeep ==
    (Done("_analyze_single_keyword") /\ args = <<Satire, 9, 10>>)
    => (/\ ret.relevance_score = 80
        /\ ret.action_recommendation = "Keep"
        /\ ret.reasoning = "Strong performer")

C2_Witness ==
    /\ Done("_analyze_single_keyword")
    /\ args = <<Satire, 9, 10>>
    /\ ret.relevance_score = 80
    /\ ret.action_recommendation = "Keep"

\* the decision table of C3: the guards in their fixed order and the outcome
\* of each
C3_Rules(keyword, d, r) ==
    << [guard |-> d.relevance <= 3, outcome |-> "Remove"],
       [guard |-> keyword \in QualityDescriptors /\ d.relevance <= 4,
        outcome |-> "Remove"],
       [guard |-> d.competition = "High" /\ d.trend = "declining"
                  /\ d.relevance <= 7,
        outcome |-> "Replace"],
       [guard |-> r.num * 10 > 8 * r.den /\ d.relevance <= 8,
        outcome |-> "Replace"],
       [guard |-> d.relevance >= 8 /\ d.trend \in {"stable", "rising"},
        outcome |-> "Keep"],
       [guard |-> TRUE, outcome |-> "Keep"] >>

\* C3: for every relevance, competition, trend, keyword and frequency
\* ratio, _determine_action returns the outcome of the first rule of the
\* fixed order whose guard holds, and the result is Keep, Replace or Remove.
C3_FirstMatchingRule ==
    Done("_determine_action") =>
        LET rules == C3_Rules(args[1], args[2], args[3])
            first == CHOOSE i \in 1..Len(rules) :
                        rules[i].guard /\ \A j \in 1..(i - 1) : ~rules[j].guard
        IN  /\ ret[1] = rules[first].outcome
            /\ ret[1] \in {"Keep", "Replace", "Remove"}

\* a High, declining keyword of relevance 7 at ratio 9/10: rules 3 and 4
\* both match and rule 3 decides
C3_Witness ==
    /\ Done("_determine_action")
    /\ args[2] = [competition |-> "High", relevance |-> 7, trend |-> "declining"]
    /\ args[3] = [num |-> 9, den |-> 10]
    /\ ret = <<"Replace", "High competition, declining trend">>

\* C4: the adjusted relevance is 0.8 x the catalog relevance exactly when
\* frequency / total_listings > 0.7 and the catalog relevance otherwise
\* (7 of 10 is not penalised); "beautiful" at 5 of 10 keeps 2 and is Remove.
C4_OverusePenalty ==
    /\ (Done("_analyze_single_keyword") /\ args[3] > 0) =>
        LET base == BaseOf[args[1]] IN
        ret.relevance_score =
              IF args[2] * 10 > 7 * args[3]
              THEN 8 * CatalogRecord(base).relevance
              ELSE 10 * CatalogRecord(base).relevance
    /\ (Done("_analyze_single_keyword") /\ args = <<Beautiful, 5, 10>>)
        => (ret.relevance_score = 20 /\ ret.action_recommendation = "Remove")

\* the boundary: 7 of 10 listings is not penalised
C4_Witness ==
    /\ Done("_analyze_single_keyword")
    /\ args = <<Beautiful, 7, 10>>
    /\ ret.relevance_score = 20

\* C5: every case variant and whitespace-padded variant of a keyword gets
\* the competition, relevance, action and replacement list of the keyword
\* itself, and a keyword absent from the catalog is assessed with the
\* default record (Unknown, 5, stable).
C5_NormalizedLookup ==
    (Done("_analyze_single_keyword") /\ args[3] > 0) =>
        LET base == BaseOf[args[1]] IN
        LET same == _analyze_single_keyword(_initialize_keyword_database,
                                               base, args[2], args[3])
               ratio == [num |-> args[2], den |-> args[3]]
           IN  /\ ret.estimated_competition = CatalogRecord(base).competition
               /\ ret.estimated_competition = same.estimated_competition
               /\ ret.relevance_score = same.relevance_score
               /\ ret.action_recommendation = same.action_recommendation
               /\ ret.replacement_suggestions = same.replacement_suggestions
               /\ base \notin DOMAIN _initialize_keyword_database =>
                    /\ ret.estimated_competition = "Unknown"
                    /\ ret.relevance_score \in {50, 40}
                    /\ ret.action_recommendation =
                         (IF ratio.num * 10 > 8 * ratio.den
                          THEN "Replace" ELSE "Keep")

\* "\tSATIRE " is assessed as "satire" is
C5_Witness ==
    /\ Done("_analyze_single_keyword")
    /\ args[1] = <<"\t">> \o Upper(Satire) \o <<" ">>
    /\ args[3] > 0
    /\ ret.estimated_competition = "Low"
    /\ ret.relevance_score \in {100, 80}

\* C6 as stated: a Keep or Remove assessment has an empty replacement list,
\* a Replace assessment has the table entry of the normalized keyword.
C6_ReplacementsOnlyOnReplace ==
    (Done("_analyze_single_keyword") /\ args[3] > 0) =>
        LET base == BaseOf[args[1]] IN
        ret.replacement_suggestions =
              IF ret.action_recommendation = "Replace"
              THEN DictGet(replacements, base, <<>>)
              ELSE <<>>

\* C6 amended: every assessment, whatever its action, carries the table
\* entry of the normalized keyword (empty when the table has none).
C6_ReplacementsAlways ==
    (Done("_analyze_single_keyword") /\ args[3] > 0) =>
        LET base == BaseOf[args[1]] IN
        ret.replacement_suggestions =
              (IF base \in DOMAIN replacements THEN replacements[base] ELSE <<>>)

\* "awesome" is Remove and still carries its two replacements
C6_Witness ==
    /\ Done("_analyze_single_keyword")
    /\ args[1] \in Variants(Awesome)
    /\ args[3] > 0
    /\ ret.action_recommendation = "Remove"
    /\ ret.replacement_suggestions =
          << <<"w","i","t","t","y">>, <<"c","l","e","v","e","r">> >>

\* the listings of a portfolio whose tags contain the keyword k, compared
\* without regard to case
ListingsContaining(listings_data, k) ==
    {i \in 1..Len(listings_data) :
        \E j \in 1..Len(listings_data[i].tags) :
            Lower(listings_data[i].tags[j]) = Lower(k)}

\* C7: in every assessment of analyze_keyword_portfolio, frequency is the
\* number of listings that contain the keyword, so 0 <= frequency <= number
\* of listings, also when a listing repeats a tag.
C7_FrequencyCountsListings ==
    Done("analyze_keyword_portfolio") =>
        \A i \in 1..Len(ret) :
            /\ ret[i].frequency_across_listings =
                  Cardinality(ListingsContaining(args[1], ret[i].keyword))
            /\ 0 <= ret[i].frequency_across_listings
            /\ ret[i].frequency_across_listings <= Len(args[1])

\* C8: analyze_keyword_portfolio returns exactly one assessment per distinct
\* normalized (lower-cased, trimmed) keyword, whose frequency counts every
\* tag that normalizes to it.
C8_OneAssessmentPerNormalizedKeyword ==
    Done("analyze_keyword_portfolio") =>
        LET all == AllKeywords(args[1])
            normalized == {KeywordClean(all[i]) : i \in 1..Len(all)}
        IN  /\ Len(ret) = Cardinality(normalized)
            /\ \A k \in normalized :
                 \E i \in 1..Len(ret) :
                    /\ KeywordClean(ret[i].keyword) = k
                    /\ ret[i].frequency_across_listings =
                          Cardinality({j \in 1..Len(all) : KeywordClean(all[j]) = k})

\* C18: analyze_keyword_portfolio returns its assessments ordered by
\* adjusted relevance descending and, among equal adjusted relevance, by
\* frequency ascending: for every adjacent pair (a, b), a.relevance >
\* b.relevance, or a.relevance = b.relevance and a.frequency <= b.frequency.
C18_PortfolioOrder ==
    Done("analyze_keyword_portfolio") =>
        \A i \in 1..(Len(ret) - 1) :
            \/ ret[i].relevance_score > ret[i + 1].relevance_score
            \/ /\ ret[i].relevance_score = ret[i + 1].relevance_score
               /\ ret[i].frequency_across_listings
                     <= ret[i + 1].frequency_across_listings

\* two assessments of equal adjusted relevance, the rarer keyword first
C18_Witness ==
    /\ Done("analyze_keyword_portfolio")
    /\ Len(ret) = 2
    /\ ret[1].relevance_score = ret[2].relevance_score
    /\ ret[1].frequency_across_listings < ret[2].frequency_across_listings

(***************************************************************************)
(* EtsyMarketResearcher                                                    *)
(***************************************************************************)
_default_config ==
    [excluded_categories |->
        {"woodworking", "metalworking", "glass blowing", "pottery wheel",
         "jewelry casting", "leather working", "screen printing"},
     preferred_categories |->
        {"digital products", "printables", "simple crafts", "planning",
         "stickers", "cards", "simple sewing", "knitting", "crochet"}]

_load_capability_profile ==
    [skills |-> {"digital_design", "basic_sewing", "writing", "planning",
                 "organization"},
     tools_available |-> {"computer", "printer", "basic_sewing_supplies",
                          "design_software"},
     tools_not_available |-> {"woodworking_tools", "pottery_wheel",
                              "metalworking", "advanced_machinery"},
     learning_capacity |-> "Medium"]

\* set(a_list)
ToSet(seq) == {seq[i] : i \in 1..Len(seq)}

Min2(a, b) == IF a <= b THEN a ELSE b
Max2(a, b) == IF a >= b THEN a ELSE b

\* int(a / b) for b > 0: Python's int() truncates towards zero
IntTrunc(a, b) == IF a >= 0 THEN a \div b ELSE 0 - ((0 - a) \div b)

\* variant: the tool requirements are not checked
_is_opportunity_feasible_noTools(cfg, profile, opp_data) ==
    LET required_skills == ToSet(opp_data.skill_requirements)
    IN  IF opp_data.category \in cfg.excluded_categories
        THEN FALSE
        ELSE IF /\ ~(required_skills \subseteq profile.skills)
                /\ profile.learning_capacity = "Low"
                /\ Cardinality(required_skills \ profile.skills) > 1
        THEN FALSE
        ELSE TRUE

\* _is_opportunity_feasible(opp_data)
_is_opportunity_feasible(cfg, profile, opp_data) ==
    LET required_skills == ToSet(opp_data.skill_requirements)
        required_tools == ToSet(opp_data.resource_requirements)
    IN  IF opp_data.category \in cfg.excluded_categories
        THEN FALSE
        ELSE IF /\ ~(required_skills \subseteq profile.skills)
                /\ profile.learning_capacity = "Low"
                /\ Cardinality(required_skills \ profile.skills) > 1
        THEN FALSE
        ELSE IF \E tool \in required_tools : tool \in profile.tools_not_available
        THEN FALSE
        ELSE TRUE

\* variant: the preferred-category bonus is left out
_calculate_effort_score_noPreference(cfg, profile, opp_data) ==
    LET required_skills == ToSet(opp_data.skill_requirements)
        missing_skills == required_skills \ profile.skills
        e1 == 2 + Cardinality(missing_skills)
        base_effort == IF opp_data.competition_level = "High" THEN e1 + 1
                       ELSE IF opp_data.competition_level = "Low" THEN e1 - 1
                       ELSE e1
    IN  Max2(1, Min2(5, base_effort))

\* _calculate_effort_score(opp_data)
_calculate_effort_score(cfg, profile, opp_data) ==
    LET required_skills == ToSet(opp_data.skill_requirements)
        missing_skills == required_skills \ profile.skills
        e1 == 2 + Cardinality(missing_skills)
        e2 == IF opp_data.competition_level = "High" THEN e1 + 1
              ELSE IF opp_data.competition_level = "Low" THEN e1 - 1
              ELSE e1
        base_effort == IF opp_data.category \in cfg.preferred_categories
                       THEN e2 - 1 ELSE e2
    IN  Max2(1, Min2(5, base_effort))

\* variant: Medium competition costs nothing
CompetitionPenalty_mediumFree == ("Low" :> 0) @@ ("Medium" :> 0) @@ ("High" :> (0 - 2))

CompetitionPenalty == ("Low" :> 0) @@ ("Medium" :> (0 - 1)) @@ ("High" :> (0 - 2))

\* variant: the result is capped at 5 but has no floor of 1
_calculate_impact_score_noFloor(opp_data) ==
    LET volume_score == Min2(5, Max2(1, (opp_data.search_volume \div 1000) + 1))
        price_score == Min2(5, Max2(1, opp_data.avg_price \div 1000))
        seasonal_score == Min2(5, IntTrunc(opp_data.seasonal_factor * 3, 10))
    IN  IF opp_data.competition_level \notin DOMAIN CompetitionPenalty
        THEN [raised |-> "KeyError"]
        ELSE LET impact == ((volume_score + price_score + seasonal_score) \div 3)
                           + CompetitionPenalty[opp_data.competition_level]
             IN  Min2(5, impact)

\* _calculate_impact_score(opp_data); the dict lookup of an unlisted
\* competition level raises KeyError
_calculate_impact_score(opp_data) ==
    LET volume_score == Min2(5, Max2(1, (opp_data.search_volume \div 1000) + 1))
        price_score == Min2(5, Max2(1, opp_data.avg_price \div 1000))
        seasonal_score == Min2(5, IntTrunc(opp_data.seasonal_factor * 3, 10))
    IN  IF opp_data.competition_level \notin DOMAIN CompetitionPenalty
        THEN [raised |-> "KeyError"]
        ELSE LET impact == ((volume_score + price_score + seasonal_score) \div 3)
                           + CompetitionPenalty[opp_data.competition_level]
             IN  Max2(1, Min2(5, impact))

\* variant: every required skill counts, owned or not
_calculate_confidence_score_allSkills(profile, opp_data) ==
    LET required_skills == ToSet(opp_data.skill_requirements)
        c1 == 3 + Min2(2, Cardinality(required_skills))
        confidence == IF opp_data.competition_level = "High" THEN c1 - 1 ELSE c1
    IN  Max2(1, Min2(5, confidence))

\* _calculate_confidence_score(opp_data)
_calculate_confidence_score(profile, opp_data) ==
    LET required_skills == ToSet(opp_data.skill_requirements)
        skill_overlap == Cardinality(required_skills \cap profile.skills)
        c1 == 3 + Min2(2, skill_overlap)
        confidence == IF opp_data.competition_level = "High" THEN c1 - 1 ELSE c1
    IN  Max2(1, Min2(5, confidence))

\* _determine_timeline(effort_score, opp_data)
_determine_timeline_lt2(effort_score, opp_data) ==
    IF effort_score < 2 THEN "Quick Win"
    ELSE IF effort_score = 3 THEN "Weekend Project"
    ELSE IF effort_score = 4 THEN "Major Initiative"
    ELSE "Long-term Strategy"

_determine_timeline(effort_score, opp_data) ==
    IF effort_score <= 2 THEN "Quick Win"
    ELSE IF effort_score = 3 THEN "Weekend Project"
    ELSE IF effort_score = 4 THEN "Major Initiative"
    ELSE "Long-term Strategy"

\* _create_market_opportunity(opp_data)
_create_market_opportunity(cfg, profile, opp_data) ==
    LET effort_score == _calculate_effort_score(cfg, profile, opp_data)
        impact_score == _calculate_impact_score(opp_data)
        confidence_score == _calculate_confidence_score(profile, opp_data)
        timeline == _determine_timeline(effort_score, opp_data)
    IN  IF opp_data.competition_level \notin DOMAIN CompetitionPenalty
        THEN impact_score
        ELSE [ name |-> opp_data.name,
               category |-> opp_data.category,
               search_volume |-> opp_data.search_volume,
               competition_level |-> opp_data.competition_level,
               avg_price |-> opp_data.avg_price,
               seasonal_factor |-> opp_data.seasonal_factor,
               keywords |-> opp_data.keywords,
               skill_requirements |-> opp_data.skill_requirements,
               resource_requirements |-> opp_data.resource_requirements,
               effort_score |-> effort_score,
               impact_score |-> impact_score,
               confidence_score |-> confidence_score,
               timeline |-> timeline ]

\* variant: the product is multiplied by the effort instead of divided
_calculate_priority_score_timesEffort(opportunity) ==
    [num |-> opportunity.search_volume * opportunity.impact_score
             * opportunity.confidence_score * opportunity.effort_score,
     den |-> 1000]

\* _calculate_priority_score(opportunity): the quotient
\* (search_volume / 1000 * impact * confidence) / effort as the fraction
\* num / den, den > 0
_calculate_priority_score(opportunity) ==
    [num |-> opportunity.search_volume * opportunity.impact_score
             * opportunity.confidence_score,
     den |-> 1000 * opportunity.effort_score]

\* variant: equal priorities count as smaller
PriorityLess_orEqual(a, b) ==
    LET pa == _calculate_priority_score(a)
        pb == _calculate_priority_score(b)
    IN  pa.num * pb.den <= pb.num * pa.den

PriorityLess(a, b) ==
    LET pa == _calculate_priority_score(a)
        pb == _calculate_priority_score(b)
    IN  pa.num * pb.den < pb.num * pa.den

RECURSIVE SortedByPriority(_)
\* sorted(opportunities, key=priority, reverse=True)
SortedByPriority(seq) ==
    IF seq = <<>> THEN <<>>
    ELSE LET sorted == SortedByPriority(SubSeq(seq, 1, Len(seq) - 1))
             x == seq[Len(seq)]
             n == Cardinality({i \in 1..Len(sorted) : ~PriorityLess(sorted[i], x)})
         IN  SubSeq(sorted, 1, n) \o <<x>> \o SubSeq(sorted, n + 1, Len(sorted))

RECURSIVE FeasibleOpportunities(_, _, _)
\* the loop of research_market_opportunities: the feasible candidates, scored
FeasibleOpportunities(cfg, profile, potential_opportunities) ==
    IF potential_opportunities = <<>> THEN <<>>
    ELSE LET n == Len(potential_opportunities)
             opp_data == potential_opportunities[n]
             before == FeasibleOpportunities(cfg, profile,
                            SubSeq(potential_opportunities, 1, n - 1))
         IN  IF _is_opportunity_feasible(cfg, profile, opp_data)
             THEN Append(before, _create_market_opportunity(cfg, profile, opp_data))
             ELSE before

\* research_market_opportunities(), for the candidate list it works on,
\* when no candidate makes the scoring raise
research_market_opportunities(cfg, profile, potential_opportunities) ==
    SortedByPriority(FeasibleOpportunities(cfg, profile, potential_opportunities))

(***************************************************************************)
(* generate_opportunity_report and the two helpers it calls.               *)
(***************************************************************************)
\* the keys of the categorized dictionary
Timelines ==
    {"Quick Win", "Weekend Project", "Major Initiative", "Long-term Strategy"}

\* for opp in opportunities: categorized[opp.timeline].append(opp)
categorized(opportunities) ==
    [timeline \in Timelines |->
        SelectSeq(opportunities, LAMBDA opp : opp.timeline = timeline)]

\* opps[:5], the slice of the categorized lists
TopPerCategory == 5

\* seasonal_opps[:3] and top_opportunities[:3]
TopSeasonal == 3

TopActions == 3

\* opportunities[:5], the argument of _generate_next_actions
TopOpportunities == 5

\* a_list[:n]
Take(seq, n) == SubSeq(seq, 1, Min2(n, Len(seq)))

\* one entry of categorized_opportunities
ReportEntry(opp) ==
    [ name |-> opp.name,
      priority_score |-> _calculate_priority_score(opp),
      effort_score |-> opp.effort_score,
      impact_score |-> opp.impact_score,
      confidence_score |-> opp.confidence_score,
      avg_price |-> opp.avg_price,
      competition |-> opp.competition_level,
      skills_needed |-> opp.skill_requirements,
      resources_needed |-> opp.resource_requirements ]

\* number of opportunities whose list `field` contains x
UnlockCount(opportunities, field, x) ==
    Cardinality({i \in 1..Len(opportunities) : x \in ToSet(opportunities[i][field])})

RECURSIVE SortedByUnlocked(_)
\* sorted(gaps, key=opportunities_unlocked, reverse=True)
SortedByUnlocked(gaps) ==
    IF gaps = <<>> THEN <<>>
    ELSE LET sorted == SortedByUnlocked(SubSeq(gaps, 1, Len(gaps) - 1))
             x == gaps[Len(gaps)]
             n == Cardinality({i \in 1..Len(sorted) :
                        sorted[i].opportunities_unlocked >= x.opportunities_unlocked})
         IN  SubSeq(sorted, 1, n) \o <<x>> \o SubSeq(sorted, n + 1, Len(sorted))

\* all_skills - profile.skills and all_tools - profile.tools_available
MissingSkills(profile, opportunities) ==
    UNION {ToSet(opportunities[i].skill_requirements) : i \in 1..Len(opportunities)}
        \ profile.skills

MissingTools(profile, opportunities) ==
    UNION {ToSet(opportunities[i].resource_requirements) : i \in 1..Len(opportunities)}
        \ profile.tools_available

\* _identify_capability_gaps(opportunities), the two sets being visited in
\* the orders skillOrder and toolOrder
_identify_capability_gaps(profile, opportunities, skillOrder, toolOrder) ==
    LET skillGaps == [i \in 1..Len(skillOrder) |->
                        [ type |-> "skill", name |-> skillOrder[i],
                          opportunities_unlocked |->
                              UnlockCount(opportunities, "skill_requirements",
                                          skillOrder[i]),
                          learning_effort |-> "Medium" ]]
        toolGaps == [i \in 1..Len(toolOrder) |->
                        [ type |-> "tool", name |-> toolOrder[i],
                          opportunities_unlocked |->
                              UnlockCount(opportunities, "resource_requirements",
                                          toolOrder[i]),
                          acquisition_cost |-> "Variable" ]]
        gaps == skillGaps
                \o SelectSeq(toolGaps,
                             LAMBDA g : g.name \notin profile.tools_not_available)
    IN  SortedByUnlocked(gaps)

RECURSIVE NextActionsOf(_)
\* the loop of _generate_next_actions over enumerate(top_opportunities[:3])
NextActionsOf(top_opportunities) ==
    IF top_opportunities = <<>> THEN <<>>
    ELSE LET i == Len(top_opportunities)
             opp == top_opportunities[i]
             research == [ priority |-> i, opportunity |-> opp.name,
                           action |-> <<"Research ", opp.name, " market in detail">>,
                           timeline |-> "This week",
                           estimated_time |-> "2-3 hours" ]
             prototype == [ priority |-> i, opportunity |-> opp.name,
                            action |-> <<"Create prototype/sample for ", opp.name>>,
                            timeline |-> "Next week",
                            estimated_time |-> "4-6 hours" ]
         IN  NextActionsOf(SubSeq(top_opportunities, 1, i - 1))
             \o (IF opp.timeline = "Quick Win" THEN <<research, prototype>>
                 ELSE <<research>>)

\* _generate_next_actions(top_opportunities)
_generate_next_actions(top_opportunities) ==
    NextActionsOf(Take(top_opportunities, TopActions))

\* generate_opportunity_report(opportunities) at the instant now
generate_opportunity_report(profile, opportunities, now, skillOrder, toolOrder) ==
    LET seasonal_opps == SelectSeq(opportunities,
                                   LAMBDA opp : opp.seasonal_factor > 11)
        top_seasonal == Take(seasonal_opps, TopSeasonal)
    IN  [ generated_date |-> now,
          total_opportunities |-> Len(opportunities),
          categorized_opportunities |->
              [timeline \in Timelines |->
                  LET opps == Take(categorized(opportunities)[timeline],
                                   TopPerCategory)
                  IN  [i \in 1..Len(opps) |-> ReportEntry(opps[i])]],
          seasonal_recommendations |->
              [i \in 1..Len(top_seasonal) |->
                  [ name |-> top_seasonal[i].name,
                    seasonal_factor |-> top_seasonal[i].seasonal_factor,
                    keywords |-> top_seasonal[i].keywords ]],
          capability_gaps |->
              _identify_capability_gaps(profile, opportunities, skillOrder,
                                        toolOrder),
          next_actions |->
              _generate_next_actions(Take(opportunities, TopOpportunities)) ]

(***************************************************************************)
(* Inputs of the market researcher.                                        *)
(***************************************************************************)
MaxCandidates == 2

ConfigInputs ==
    { _default_config,
      [excluded_categories |-> {}, preferred_categories |-> {"digital_products"}] }

ProfileInputs ==
    { _load_capability_profile,
      [_load_capability_profile EXCEPT !.learning_capacity = "Low"],
      [_load_capability_profile EXCEPT !.learning_capacity = "High"],
      [skills |-> {"digital_design"}, tools_available |-> {"design_software"},
       tools_not_available |-> {"printer"}, learning_capacity |-> "Low"],
      [skills |-> {}, tools_available |-> {}, tools_not_available |-> {},
       learning_capacity |-> "Low"] }

SkillInputs ==
    { <<>>,
      <<"digital_design", "planning">>,
      <<"digital_design", "customer_service">>,
      <<"woodworking", "finishing">>,
      <<"welding", "casting", "glazing", "carving", "finishing">> }

\* the candidates scored one at a time: search_volume, avg_price (cents) and
\* seasonal_factor (tenths) range from below zero to far above the scale
ScoringCandidates ==
    [ name : {"candidate"},
      category : {"digital_products", "stickers", "woodworking"},
      search_volume : {0 - 1000, 0, 999, 3200, 5000, 1000000},
      competition_level : {"Low", "Medium", "High", "Very Low"},
      avg_price : {0 - 500, 0, 875, 1250, 1000000},
      seasonal_factor : {0 - 10, 0, 3, 12, 15, 100},
      keywords : {<<"keyword">>},
      skill_requirements : SkillInputs,
      resource_requirements : {<<"design_software", "time">>} ]

\* the records of potential_opportunities in research_market_opportunities
BuiltinOpportunities ==
    << [ name |-> "Digital Planning Printables", category |-> "digital_products",
         search_volume |-> 5000, competition_level |-> "Medium",
         avg_price |-> 1250, seasonal_factor |-> 12,
         keywords |-> <<"digital planner", "printable planner", "goal setting",
                        "productivity">>,
         skill_requirements |-> <<"digital_design", "planning">>,
         resource_requirements |-> <<"design_software", "time">> ],
       [ name |-> "Custom Wedding Stickers", category |-> "stickers",
         search_volume |-> 3200, competition_level |-> "High",
         avg_price |-> 875, seasonal_factor |-> 15,
         keywords |-> <<"wedding stickers", "custom labels", "bridal shower">>,
         skill_requirements |-> <<"digital_design", "customer_service">>,
         resource_requirements |-> <<"design_software", "printer", "sticker_paper">> ],
       [ name |-> "Handmade Baby Bibs", category |-> "sewing",
         search_volume |-> 2100, competition_level |-> "Low",
         avg_price |-> 1500, seasonal_factor |-> 10,
         keywords |-> <<"baby bib", "handmade", "personalized", "organic">>,
         skill_requirements |-> <<"basic_sewing", "pattern_following">>,
         resource_requirements |-> <<"sewing_machine", "fabric", "thread">> ],
       [ name |-> "Wooden Cutting Boards", category |-> "woodworking",
         search_volume |-> 4500, competition_level |-> "Medium",
         avg_price |-> 3500, seasonal_factor |-> 13,
         keywords |-> <<"cutting board", "wooden", "handmade", "kitchen">>,
         skill_requirements |-> <<"woodworking", "finishing">>,
         resource_requirements |-> <<"woodworking_tools", "wood", "workspace">> ] >>

\* the candidates a researched list is made of: two categories, three skill
\* lists and two resource lists.  Their search_volume is a multiple of 1000,
\* for which search_volume / 1000 and the products of the priority are exact
\* in floating point, so that equal fractions are equal floats.
ResearchCandidates ==
    [ name : {"candidate"},
      category : {"digital_products", "woodworking"},
      search_volume : {3000},
      competition_level : {"Medium"},
      avg_price : {1250},
      seasonal_factor : {12},
      keywords : {<<"keyword">>},
      skill_requirements :
          { <<"digital_design", "planning">>,
            <<"digital_design", "customer_service">>,
            <<"woodworking", "finishing">> },
      resource_requirements :
          { <<"design_software", "time">>,
            <<"woodworking_tools", "wood", "workspace">> } ]

ResearchInputs ==
    SeqsUpTo(ResearchCandidates, MaxCandidates) \cup {BuiltinOpportunities}

\* the fields of a scored opportunity that _calculate_priority_score reads
PriorityInputs ==
    [ search_volume : {0 - 1000, 0, 1000, 3200, 5000},
      impact_score : 1..5,
      confidence_score : 1..5,
      effort_score : 1..5 ]

MarketCalls ==
    {<<"_create_market_opportunity", <<opp_data>>>> : opp_data \in ScoringCandidates}
    \cup
    {<<"_calculate_priority_score", <<opportunity>>>> : opportunity \in PriorityInputs}
    \cup
    {<<"research_market_opportunities", <<potential_opportunities>>>> :
        potential_opportunities \in ResearchInputs}

\* only the market researcher is constructed: there is no keyword catalog
InitMarket ==
    /\ keyword_performance_db = <<>>
    /\ config \in ConfigInputs
    /\ capability_profile \in ProfileInputs
    /\ InitUtilities
    /\ pc = "call"
    /\ \E c \in MarketCalls : op = c[1] /\ args = c[2]
    /\ ret = <<>>

Call_create_market_opportunity ==
    /\ pc = "call"
    /\ op = "_create_market_opportunity"
    /\ LET r == _create_market_opportunity(config, capability_profile, args[1])
       IN  IF Raised(r)
           THEN pc' = "raised" /\ ret' = r.raised
           ELSE pc' = "done" /\ ret' = r
    /\ UNCHANGED <<keyword_performance_db, config, capability_profile, op, args,
                   utilities>>

Call_research_market_opportunities ==
    /\ pc = "call"
    /\ op = "research_market_opportunities"
    /\ LET scored == FeasibleOpportunities(config, capability_profile, args[1])
       IN  IF \E i \in 1..Len(scored) : Raised(scored[i])
           THEN pc' = "raised" /\ ret' = "KeyError"
           ELSE /\ pc' = "done"
                /\ ret' = research_market_opportunities(config, capability_profile,
                                                        args[1])
    /\ UNCHANGED <<keyword_performance_db, config, capability_profile, op, args,
                   utilities>>

Call_calculate_priority_score ==
    /\ pc = "call"
    /\ op = "_calculate_priority_score"
    /\ pc' = "done"
    /\ ret' = _calculate_priority_score(args[1])
    /\ UNCHANGED <<keyword_performance_db, config, capability_profile, op, args,
                   utilities>>

NextMarket ==
    \/ Call_create_market_opportunity
    \/ Call_calculate_priority_score
    \/ Call_research_market_opportunities

SpecMarket == InitMarket /\ [][NextMarket]_vars

(***************************************************************************)
(* The report generator: one call of generate_opportunity_report on a     *)
(* list of scored opportunities.                                           *)
(***************************************************************************)
MaxReport == 6

\* the first two built-in records and a lower-volume sibling of the first
ReportCandidates ==
    { BuiltinOpportunities[1],
      [BuiltinOpportunities[1] EXCEPT !.name = "Budget Planner Printables",
                                      !.search_volume = 3000],
      BuiltinOpportunities[2] }

\* the default profile, one with a single skill and an unavailable printer,
\* and one without skills
ReportProfiles ==
    { _load_capability_profile,
      [skills |-> {"digital_design"}, tools_available |-> {"design_software"},
       tools_not_available |-> {"printer"}, learning_capacity |-> "Low"],
      [skills |-> {}, tools_available |-> {"design_software", "printer"},
       tools_not_available |-> {}, learning_capacity |-> "Low"] }

\* datetime.datetime.now()
Clock == {"2024-01-15T09:30:00", "2024-11-30T18:00:00"}

\* the candidate lists, scored by _create_market_opportunity under the
\* researcher's configuration and profile
InitReport ==
    /\ keyword_performance_db = <<>>
    /\ config \in ConfigInputs
    /\ capability_profile \in ReportProfiles
    /\ InitUtilities
    /\ pc = "call"
    /\ op = "generate_opportunity_report"
    /\ \E candidates \in SeqsUpTo(ReportCandidates, MaxReport) :
          args = << [i \in 1..Len(candidates) |->
                        _create_market_opportunity(config, capability_profile,
                                                   candidates[i])] >>
    /\ ret = <<>>

Call_generate_opportunity_report ==
    /\ pc = "call"
    /\ op = "generate_opportunity_report"
    /\ \E now \in Clock,
          skillOrder \in IterationOrders(MissingSkills(capability_profile, args[1])),
          toolOrder \in IterationOrders(MissingTools(capability_profile, args[1])) :
            ret' = generate_opportunity_report(capability_profile, args[1], now,
                                               skillOrder, toolOrder)
    /\ pc' = "done"
    /\ UNCHANGED <<keyword_performance_db, config, capability_profile, op, args,
                   utilities>>

NextReport == Call_generate_opportunity_report

SpecReport == InitReport /\ [][NextReport]_vars

(***************************************************************************)
(* Properties of the market researcher.                                    *)
(***************************************************************************)
\* C9: every scored opportunity has effort_score, impact_score and
\* confidence_score in 1..5, whatever the magnitude of search_volume,
\* avg_price, seasonal_factor or the number of missing skills; effort_score
\* >= 1, so the priority quotient has a non-zero divisor.
C9_ScoresClamped ==
    Done("_create_market_opportunity") =>
        /\ ret.effort_score \in 1..5
        /\ ret.impact_score \in 1..5
        /\ ret.confidence_score \in 1..5
        /\ _calculate_priority_score(ret).den # 0

\* five missing skills, a huge volume and price, a negative seasonal factor
C9_Witness ==
    /\ Done("_create_market_opportunity")
    /\ Len(args[1].skill_requirements) = 5
    /\ capability_profile.skills = {}
    /\ args[1].search_volume = 1000000
    /\ args[1].avg_price = 1000000
    /\ args[1].seasonal_factor < 0
    /\ args[1].competition_level = "Low"
    /\ ret.effort_score = 5
    /\ ret.impact_score \in 1..5

\* the exclusion rule of C10 for one candidate
C10_Excluded(cfg, profile, c) ==
    \/ c.category \in cfg.excluded_categories
    \/ ToSet(c.resource_requirements) \cap profile.tools_not_available # {}
    \/ /\ Cardinality(ToSet(c.skill_requirements) \ profile.skills) > 1
       /\ profile.learning_capacity = "Low"

\* the input fields of a scored opportunity
C10_Candidate(o) ==
    [ name |-> o.name, category |-> o.category,
      search_volume |-> o.search_volume,
      competition_level |-> o.competition_level,
      avg_price |-> o.avg_price, seasonal_factor |-> o.seasonal_factor,
      keywords |-> o.keywords,
      skill_requirements |-> o.skill_requirements,
      resource_requirements |-> o.resource_requirements ]

\* C10: a candidate is left out of the output of
\* research_market_opportunities exactly when its category is excluded, or
\* one of its required tools is in tools_not_available, or it has more than
\* one missing skill while learning capacity is Low; every other candidate
\* appears in the output exactly once (as often as in the input).
C10_ExclusionRule ==
    Done("research_market_opportunities") =>
        \A i \in 1..Len(args[1]) :
            LET c == args[1][i]
                occursIn == Cardinality({j \in 1..Len(args[1]) : args[1][j] = c})
                occursOut == Cardinality({j \in 1..Len(ret) :
                                            C10_Candidate(ret[j]) = c})
            IN  IF C10_Excluded(config, capability_profile, c)
                THEN occursOut = 0
                ELSE occursOut = occursIn

\* a candidate that needs an unavailable tool, in a category that is not
\* excluded and with no missing skill, is left out; its neighbour is kept
C10_Witness ==
    /\ Done("research_market_opportunities")
    /\ Len(args[1]) = 2
    /\ args[1][1].category \notin config.excluded_categories
    /\ ToSet(args[1][1].skill_requirements) \subseteq capability_profile.skills
    /\ ToSet(args[1][1].resource_requirements)
          \cap capability_profile.tools_not_available # {}
    /\ Len(ret) = 1
    /\ C10_Candidate(ret[1]) = args[1][2]

\* clamp(x, lo, hi) of the scoring formulas
Clamp(x, lo, hi) == IF x < lo THEN lo ELSE IF x > hi THEN hi ELSE x

\* C11: effort_score = clamp(2 + number of required skills missing from the
\* profile + (1 if competition is High, -1 if Low) - (1 if the category is
\* preferred), 1, 5) for every candidate and profile.
C11_EffortFormula ==
    Done("_create_market_opportunity") =>
        LET c == args[1]
            missing == {k \in 1..Len(c.skill_requirements) :
                            c.skill_requirements[k] \notin capability_profile.skills}
            nMissing == Cardinality({c.skill_requirements[k] : k \in missing})
            comp == CASE c.competition_level = "High" -> 1
                      [] c.competition_level = "Low" -> 0 - 1
                      [] OTHER -> 0
            pref == IF c.category \in config.preferred_categories THEN 1 ELSE 0
        IN  ret.effort_score = Clamp(2 + nMissing + comp - pref, 1, 5)

\* High competition, a preferred category and one missing skill: 2+1+1-1
C11_Witness ==
    /\ Done("_create_market_opportunity")
    /\ config = _default_config
    /\ capability_profile = _load_capability_profile
    /\ args[1].category = "stickers"
    /\ args[1].competition_level = "High"
    /\ args[1].skill_requirements = <<"digital_design", "customer_service">>
    /\ ret.effort_score = 3

\* C12: impact_score = clamp((volumeScore + priceScore + seasonalScore) // 3
\* + competitionPenalty, 1, 5) with volumeScore = clamp(search_volume //
\* 1000 + 1, 1, 5), priceScore = clamp(avg_price // 10, 1, 5), seasonalScore
\* = clamp(seasonal_factor * 3, 0, 5) and the penalty 0 / -1 / -2, for every
\* candidate with search_volume >= 0, avg_price >= 0 and any seasonal_factor.
\* (seasonal_factor is in tenths, so the sum is taken in tenths and // 3 is
\* \div 30.)
C12_ImpactFormula ==
    (/\ Done("_create_market_opportunity")
     /\ args[1].search_volume >= 0
     /\ args[1].avg_price >= 0) =>
        LET c == args[1]
            volumeScore == Clamp((c.search_volume \div 1000) + 1, 1, 5)
            priceScore == Clamp(c.avg_price \div 1000, 1, 5)
            seasonalTenths == Clamp(c.seasonal_factor * 3, 0, 50)
            penalty == CASE c.competition_level = "Low" -> 0
                         [] c.competition_level = "Medium" -> 0 - 1
                         [] c.competition_level = "High" -> 0 - 2
        IN  ret.impact_score =
              Clamp((((volumeScore + priceScore) * 10 + seasonalTenths) \div 30)
                    + penalty, 1, 5)

PriorityLeq(a, b) == a.num * b.den <= b.num * a.den

\* C14: priority = (search_volume / 1000 * impact * confidence) / effort, and
\* for a non-negative search_volume the priority does not decrease when
\* impact or confidence grows and does not increase when effort grows
\* (sub-scores in 1..5).
C14_PriorityFormula ==
    Done("_calculate_priority_score") =>
        LET o == args[1]
        IN  /\ ret.den > 0
            /\ ret.num * 1000 * o.effort_score
                 = o.search_volume * o.impact_score * o.confidence_score * ret.den
            /\ o.search_volume >= 0 =>
                 /\ \A i \in o.impact_score..5 :
                      PriorityLeq(ret, _calculate_priority_score(
                                          [o EXCEPT !.impact_score = i]))
                 /\ \A c \in o.confidence_score..5 :
                      PriorityLeq(ret, _calculate_priority_score(
                                          [o EXCEPT !.confidence_score = c]))
                 /\ \A e \in o.effort_score..5 :
                      PriorityLeq(_calculate_priority_score(
                                     [o EXCEPT !.effort_score = e]), ret)

\* 3.2 * 4 * 3 / 2 = 19.2
C14_Witness ==
    /\ Done("_calculate_priority_score")
    /\ args[1] = [search_volume |-> 3200, impact_score |-> 4,
                  confidence_score |-> 3, effort_score |-> 2]
    /\ ret.num * 10 = 192 * ret.den

\* the bucket of an effort score, as the claim gives it
C15_Bucket(effort_score) ==
    CASE effort_score <= 2 -> "Quick Win"
      [] effort_score = 3 -> "Weekend Project"
      [] effort_score = 4 -> "Major Initiative"
      [] effort_score = 5 -> "Long-term Strategy"

\* C15: the timeline bucket is a function of effort_score alone (<= 2 Quick
\* Win, 3 Weekend Project, 4 Major Initiative, 5 Long-term Strategy), and
\* generate_opportunity_report files every scored opportunity under exactly
\* one of the four buckets, the one of its effort_score: each bucket is the
\* sub-list of the opportunities with that effort, and what the report lists
\* under a bucket has an effort of that bucket.
C15_BucketByEffort ==
    Done("generate_opportunity_report") =>
        /\ \A i \in 1..Len(args[1]) :
              args[1][i].timeline = C15_Bucket(args[1][i].effort_score)
        /\ DOMAIN categorized(args[1]) = Timelines
        /\ \A timeline \in Timelines :
              categorized(args[1])[timeline]
                 = SelectSeq(args[1],
                             LAMBDA opp : C15_Bucket(opp.effort_score) = timeline)
        /\ \A i \in 1..Len(args[1]) :
              Cardinality({timeline \in Timelines :
                  \E k \in 1..Len(categorized(args[1])[timeline]) :
                      categorized(args[1])[timeline][k] = args[1][i]}) = 1
        /\ DOMAIN ret.categorized_opportunities = Timelines
        /\ \A timeline \in Timelines :
              \A k \in 1..Len(ret.categorized_opportunities[timeline]) :
                  C15_Bucket(ret.categorized_opportunities[timeline][k].effort_score)
                     = timeline

\* two opportunities of efforts 2 and 3 land in two different buckets
C15_Witness ==
    /\ Done("generate_opportunity_report")
    /\ Len(args[1]) = 2
    /\ args[1][1].effort_score = 2
    /\ args[1][2].effort_score = 3
    /\ Len(ret.categorized_opportunities["Quick Win"]) = 1
    /\ Len(ret.categorized_opportunities["Weekend Project"]) = 1

\* C19: for any list of scored opportunities passed to
\* generate_opportunity_report, each bucket list holds at most 5 entries and
\* these are the top 5 of the bucket: no opportunity of the bucket that is
\* left out of the list has a higher priority_score than a listed one.
C19_TopOfBucket ==
    Done("generate_opportunity_report") =>
        \A timeline \in Timelines :
            LET listed == ret.categorized_opportunities[timeline]
                bucket == SelectSeq(args[1], LAMBDA opp : opp.timeline = timeline)
            IN  /\ Len(listed) <= 5
                /\ \A k \in 1..Len(listed) :
                      \E i \in 1..Len(bucket) : ReportEntry(bucket[i]) = listed[k]
                /\ \A i \in 1..Len(bucket) :
                      (Cardinality({j \in 1..Len(bucket) : bucket[j] = bucket[i]})
                         > Cardinality({k \in 1..Len(listed) :
                                           listed[k] = ReportEntry(bucket[i])}))
                      => \A k \in 1..Len(listed) :
                            PriorityLeq(_calculate_priority_score(bucket[i]),
                                        listed[k].priority_score)

\* C16: a candidate with search_volume 5000, avg_price 12.50,
\* seasonal_factor 1.2 and competition Medium, all of whose required skills
\* are in the profile and whose category is not excluded, is scored with
\* effort_score <= 2, timeline 'Quick Win' and impact_score
\* (5 + 1 + 3) // 3 - 1 = 2; so is the built-in 'Digital Planning
\* Printables' record under the default profile and configuration.
C16_PrintablesScenario ==
    /\ (/\ Done("_create_market_opportunity")
        /\ args[1].search_volume = 5000
        /\ args[1].avg_price = 1250
        /\ args[1].seasonal_factor = 12
        /\ args[1].competition_level = "Medium"
        /\ ToSet(args[1].skill_requirements) \subseteq capability_profile.skills
        /\ args[1].category \notin config.excluded_categories)
       => /\ ret.effort_score <= 2
          /\ ret.timeline = "Quick Win"
          /\ ret.impact_score = 2
    /\ (/\ Done("research_market_opportunities")
        /\ args[1] = BuiltinOpportunities
        /\ config = _default_config
        /\ capability_profile = _load_capability_profile)
       => /\ \E i \in 1..Len(ret) : ret[i].name = "Digital Planning Printables"
          /\ \A i \in 1..Len(ret) :
                ret[i].name = "Digital Planning Printables"
                => /\ ret[i].search_volume = 5000
                   /\ ret[i].effort_score <= 2
                   /\ ret[i].timeline = "Quick Win"
                   /\ ret[i].impact_score = 2

\* the built-in list under the default profile and configuration: the
\* printables come out first
C16_Witness ==
    /\ Done("research_market_opportunities")
    /\ args[1] = BuiltinOpportunities
    /\ config = _default_config
    /\ capability_profile = _load_capability_profile
    /\ ret[1].name = "Digital Planning Printables"
    /\ ret[1].timeline = "Quick Win"

\* C17: research_market_opportunities returns the feasible opportunities
\* ordered by priority_score descending (each element's priority >= its
\* successor's), opportunities of equal priority_score in their input
\* order; the output is a permutation of the feasible scored candidates.
C17_SortedStablePermutation ==
    Done("research_market_opportunities") =>
        LET feasible == {i \in 1..Len(args[1]) :
                            ~C10_Excluded(config, capability_profile, args[1][i])}
        IN  /\ Len(ret) = Cardinality(feasible)
            /\ \E from \in [1..Len(ret) -> feasible] :
                  /\ \A j, k \in 1..Len(ret) : from[j] = from[k] => j = k
                  /\ \A k \in 1..Len(ret) :
                        ret[k] = _create_market_opportunity(
                                    config, capability_profile, args[1][from[k]])
                  /\ \A k \in 1..(Len(ret) - 1) :
                        /\ PriorityLeq(_calculate_priority_score(ret[k + 1]),
                                       _calculate_priority_score(ret[k]))
                        /\ PriorityLeq(_calculate_priority_score(ret[k]),
                                       _calculate_priority_score(ret[k + 1]))
                           => from[k] < from[k + 1]

\* two different candidates of equal priority come out in input order
C17_Witness ==
    /\ Done("research_market_opportunities")
    /\ Len(args[1]) = 2
    /\ Len(ret) = 2
    /\ ret[1] # ret[2]
    /\ C10_Candidate(ret[1]) = args[1][1]
    /\ C10_Candidate(ret[2]) = args[1][2]
    /\ PriorityLeq(_calculate_priority_score(ret[1]), _calculate_priority_score(ret[2]))

(***************************************************************************)
(* The two scoring methods called twice with the same arguments on the    *)
(* same agent.                                                             *)
(***************************************************************************)
InitPure ==
    /\ InitUtilities
    /\ pc = "call"
    /\ ret = <<>>
    /\ \/ /\ keyword_performance_db = _initialize_keyword_database
          /\ config = NoConfig
          /\ capability_profile = NoProfile
          /\ op = "_analyze_single_keyword"
          /\ \E c \in KeywordCalls : op = c[1] /\ args = c[2]
       \/ /\ keyword_performance_db = <<>>
          /\ config \in ConfigInputs
          /\ capability_profile \in ProfileInputs
          /\ op = "_create_market_opportunity"
          /\ \E c \in MarketCalls : op = c[1] /\ args = c[2]

\* the second call of _analyze_single_keyword, on the agent as the first
\* call left it
Again_analyze_single_keyword ==
    /\ pc = "done"
    /\ op = "_analyze_single_keyword"
    /\ LET r == _analyze_single_keyword(keyword_performance_db,
                                        args[1], args[2], args[3])
       IN  IF Raised(r)
           THEN pc' = "raised" /\ ret' = r.raised
           ELSE pc' = "again" /\ ret' = r
    /\ UNCHANGED <<keyword_performance_db, config, capability_profile, op, args,
                   utilities>>

\* the second call of _create_market_opportunity
Again_create_market_opportunity ==
    /\ pc = "done"
    /\ op = "_create_market_opportunity"
    /\ LET r == _create_market_opportunity(config, capability_profile, args[1])
       IN  IF Raised(r)
           THEN pc' = "raised" /\ ret' = r.raised
           ELSE pc' = "again" /\ ret' = r
    /\ UNCHANGED <<keyword_performance_db, config, capability_profile, op, args,
                   utilities>>

NextPure ==
    \/ Call_analyze_single_keyword
    \/ Call_create_market_opportunity
    \/ Again_analyze_single_keyword
    \/ Again_create_market_opportunity

SpecPure == InitPure /\ [][NextPure]_vars

C21_ScoringNeverRaises ==
    op \in {"_create_market_opportunity", "research_market_opportunities"}
        => pc # "raised"

(***************************************************************************)
(* optimize_listing_keywords and generate_portfolio_report                 *)
(***************************************************************************)
\* sub in s, for two strings
Contains(s, sub) ==
    \E i \in 1..(Len(s) - Len(sub) + 1) : SubSeq(s, i, i + Len(sub) - 1) = sub

\* x in a_list
InList(x, seq) == \E i \in 1..Len(seq) : seq[i] = x

RECURSIVE UniqueSuggestions(_, _)
\* the loop that drops the suggestions that are current keywords or repeats
UniqueSuggestions(suggestions, current_lower) ==
    IF suggestions = <<>> THEN <<>>
    ELSE LET before == UniqueSuggestions(
                          SubSeq(suggestions, 1, Len(suggestions) - 1),
                          current_lower)
             suggestion == suggestions[Len(suggestions)]
         IN  IF /\ ~InList(Lower(suggestion), current_lower)
                /\ ~InList(suggestion, before)
             THEN Append(before, suggestion)
             ELSE before

\* _suggest_additional_keywords(title, current_keywords)
_suggest_additional_keywords(title, current_keywords) ==
    LET title_lower == Lower(title)
        current_lower == [i \in 1..Len(current_keywords) |->
                             Lower(current_keywords[i])]
        opsec == IF /\ Contains(title_lower, <<"o","p","s","e","c">>)
                    /\ ~InList(<<"c","y","b","e","r","s","e","c","u","r","i","t","y">>, current_lower)
                 THEN << <<"c","y","b","e","r","s","e","c","u","r","i","t","y">>,
                      <<"I","T"," ","s","e","c","u","r","i","t","y">>,
                      <<"s","e","c","u","r","i","t","y"," ","h","u","m","o","r">> >>
                 ELSE <<>>
        alphabet == IF \/ Contains(title_lower, <<"f","o","x","t","r","o","t">>)
                       \/ Contains(title_lower, <<"d","e","l","t","a">>)
                       \/ Contains(title_lower, <<"t","a","n","g","o">>)
                    THEN << <<"m","i","l","i","t","a","r","y"," ","a","l","p","h","a","b","e","t">>,
                         <<"n","a","t","o"," ","p","h","o","n","e","t","i","c">>,
                         <<"d","i","p","l","o","m","a","t"," ","g","i","f","t">> >>
                    ELSE <<>>
        bureaucrat == IF Contains(title_lower, <<"b","u","r","e","a","u","c","r","a","t">>)
                      THEN << <<"c","i","v","i","l"," ","s","e","r","v","a","n","t">>,
                           <<"f","e","d","e","r","a","l"," ","w","o","r","k","e","r">>,
                           <<"g","o","v","e","r","n","m","e","n","t"," ","h","u","m","o","r">> >>
                      ELSE <<>>
        service == IF Contains(title_lower, <<"p","u","b","l","i","c"," ","s","e","r","v","i","c","e">>)
                   THEN << <<"c","i","v","i","c"," ","e","n","g","a","g","e","m","e","n","t">>,
                        <<"d","e","m","o","c","r","a","c","y"," ","d","e","f","e","n","d","e","r">>,
                        <<"p","u","b","l","i","c"," ","s","e","c","t","o","r">> >>
                   ELSE <<>>
        political == IF \E word \in {<<"p","o","l","i","t","i","c","a","l">>, <<"p","r","o","t","e","s","t">>, <<"r","e","s","i","s","t">>} :
                            Contains(title_lower, word)
                     THEN << <<"a","c","t","i","v","i","s","t"," ","g","e","a","r">>,
                          <<"s","t","a","t","e","m","e","n","t"," ","p","i","e","c","e">>,
                          <<"p","o","l","i","t","i","c","a","l"," ","a","r","t">> >>
                     ELSE <<>>
        sticker == IF /\ Contains(title_lower, <<"s","t","i","c","k","e","r">>)
                      /\ ~InList(<<"d","e","c","a","l">>, current_lower)
                   THEN << <<"d","e","c","a","l">> >>
                   ELSE <<>>
        shirt == IF \/ Contains(title_lower, <<"s","h","i","r","t">>)
                    \/ Contains(title_lower, <<"t","e","e">>)
                 THEN << <<"g","r","a","p","h","i","c"," ","t","e","e">>,
                      <<"s","t","a","t","e","m","e","n","t"," ","s","h","i","r","t">>,
                      <<"p","o","l","i","t","i","c","a","l"," ","a","p","p","a","r","e","l">> >>
                 ELSE <<>>
        hat == IF \/ Contains(title_lower, <<"h","a","t">>)
                  \/ Contains(title_lower, <<"c","a","p">>)
               THEN << <<"p","o","l","i","t","i","c","a","l"," ","h","a","t">>,
                    <<"s","t","a","t","e","m","e","n","t"," ","c","a","p">>,
                    <<"p","r","o","t","e","s","t"," ","g","e","a","r">> >>
               ELSE <<>>
        suggestions == opsec \o alphabet \o bureaucrat \o service \o political
                       \o sticker \o shirt \o hat
        unique_suggestions == UniqueSuggestions(suggestions, current_lower)
    IN  SubSeq(unique_suggestions, 1,
               IF Len(unique_suggestions) < 5 THEN Len(unique_suggestions) ELSE 5)

\* variant: the tag is assessed as used in one of two listings
SingleListingAnalysis_oneOfTwo(db, keyword) ==
    _analyze_single_keyword(db, keyword, 1, 2)

\* self._analyze_single_keyword(keyword, 1, 1), the single listing context
SingleListingAnalysis(db, keyword) ==
    _analyze_single_keyword(db, keyword, 1, 1)

\* variant: four additions are kept
optimize_listing_keywords_addFour(db, listing) ==
    LET title == DictGet(listing, "title", <<"U","n","k","n","o","w","n"," ","L","i","s","t","i","n","g">>)
        current_keywords == DictGet(listing, "tags", <<>>)
        keywords_to_remove ==
            SelectSeq(current_keywords,
                      LAMBDA keyword :
                          SingleListingAnalysis(db, keyword).action_recommendation
                              = "Remove")
        replaced ==
            {keyword \in ToSet(current_keywords) :
                LET analysis == SingleListingAnalysis(db, keyword)
                IN  /\ analysis.action_recommendation = "Replace"
                    /\ analysis.replacement_suggestions # <<>>}
        keywords_to_replace ==
            [keyword \in replaced |->
                SingleListingAnalysis(db, keyword).replacement_suggestions[1]]
        additional_keywords == _suggest_additional_keywords(title, current_keywords)
        keywords_to_add ==
            SubSeq(additional_keywords, 1,
                   IF Len(additional_keywords) < 4 THEN Len(additional_keywords)
                   ELSE 4)
        total_changes == Len(keywords_to_remove) + Cardinality(replaced)
                         + Len(keywords_to_add)
    IN  [ listing_title |-> title,
          current_keywords |-> current_keywords,
          keywords_to_remove |-> keywords_to_remove,
          keywords_to_replace |-> keywords_to_replace,
          keywords_to_add |-> keywords_to_add,
          optimization_priority |->
              IF total_changes >= 5 THEN "High"
              ELSE IF total_changes >= 3 THEN "Medium"
              ELSE "Low",
          expected_improvement |->
              IF total_changes >= 5 THEN "25-40% improvement expected"
              ELSE IF total_changes >= 3 THEN "15-25% improvement expected"
              ELSE "5-15% improvement expected" ]

\* optimize_listing_keywords(listing); keywords_to_replace is the dict, a
\* function on the replaced tags
optimize_listing_keywords(db, listing) ==
    LET title == DictGet(listing, "title", <<"U","n","k","n","o","w","n"," ","L","i","s","t","i","n","g">>)
        current_keywords == DictGet(listing, "tags", <<>>)
        keywords_to_remove ==
            SelectSeq(current_keywords,
                      LAMBDA keyword :
                          SingleListingAnalysis(db, keyword).action_recommendation
                              = "Remove")
        replaced ==
            {keyword \in ToSet(current_keywords) :
                LET analysis == SingleListingAnalysis(db, keyword)
                IN  /\ analysis.action_recommendation = "Replace"
                    /\ analysis.replacement_suggestions # <<>>}
        keywords_to_replace ==
            [keyword \in replaced |->
                SingleListingAnalysis(db, keyword).replacement_suggestions[1]]
        additional_keywords == _suggest_additional_keywords(title, current_keywords)
        keywords_to_add ==
            SubSeq(additional_keywords, 1,
                   IF Len(additional_keywords) < 3 THEN Len(additional_keywords)
                   ELSE 3)
        total_changes == Len(keywords_to_remove) + Cardinality(replaced)
                         + Len(keywords_to_add)
    IN  [ listing_title |-> title,
          current_keywords |-> current_keywords,
          keywords_to_remove |-> keywords_to_remove,
          keywords_to_replace |-> keywords_to_replace,
          keywords_to_add |-> keywords_to_add,
          optimization_priority |->
              IF total_changes >= 5 THEN "High"
              ELSE IF total_changes >= 3 THEN "Medium"
              ELSE "Low",
          expected_improvement |->
              IF total_changes >= 5 THEN "25-40% improvement expected"
              ELSE IF total_changes >= 3 THEN "15-25% improvement expected"
              ELSE "5-15% improvement expected" ]

\* the tags of the listings to optimize: two Remove keywords (one with a
\* replacement table entry), three Replace keywords (one with an entry, one
\* of relevance 4, one of relevance 8), a Keep keyword, an unknown keyword
\* and two tags that match a suggestion up to case
OptimizerTags ==
    { <<"b","e","a","u","t","i","f","u","l">>,
      <<"a","w","e","s","o","m","e">>, <<"F","u","n","n","y">>, <<"q","u","a","l","i","t","y">>, <<"g","i","f","t">>, <<"s","a","t","i","r","e">>, <<"n","e","w">>, <<"I","T"," ","S","e","c","u","r","i","t","y">>, <<"D","e","c","a","l">> }

OptimizerTitles ==
    { <<"O","P","S","E","C"," ","S","t","i","c","k","e","r">>, <<"B","u","r","e","a","u","c","r","a","t"," ","T","e","e"," ","S","h","i","r","t">>, <<"P","o","l","i","t","i","c","a","l"," ","h","a","t">> }

\* listings with and without a title
OptimizerListings ==
    [title : OptimizerTitles, tags : SeqsUpTo(OptimizerTags, MaxTags)]
    \cup [tags : SeqsUpTo(OptimizerTags, MaxTags)]

\* high_value_keywords of _identify_portfolio_gaps
high_value_keywords ==
    << <<"d","e","e","p"," ","s","t","a","t","e">>,
       <<"t","r","a","n","s","p","a","r","e","n","c","y">>,
       <<"a","c","c","o","u","n","t","a","b","i","l","i","t","y">>,
       <<"o","v","e","r","s","i","g","h","t">>,
       <<"w","h","i","s","t","l","e","b","l","o","w","e","r">>,
       <<"c","l","a","s","s","i","f","i","e","d">>,
       <<"s","e","c","u","r","i","t","y"," ","c","l","e","a","r","a","n","c","e">>,
       <<"i","n","s","i","d","e","r">>,
       <<"d","i","p","l","o","m","a","t","i","c">>,
       <<"i","n","t","e","l","l","i","g","e","n","c","e">>,
       <<"b","r","i","e","f","i","n","g">>,
       <<"m","e","m","o">> >>

\* _identify_portfolio_gaps(listings_data)
_identify_portfolio_gaps(listings_data) ==
    LET all_keywords == UniqueKeywords(listings_data)
        valuable_missing == SelectSeq(high_value_keywords,
                                      LAMBDA keyword : keyword \notin all_keywords)
    IN  SubSeq(valuable_missing, 1,
               IF Len(valuable_missing) < 8 THEN Len(valuable_missing) ELSE 8)

\* _identify_quick_wins(optimizations)
_identify_quick_wins(optimizations) ==
    LET chosen == SelectSeq(optimizations,
                            LAMBDA opt :
                                /\ opt.optimization_priority \in {"High", "Medium"}
                                /\ Len(opt.keywords_to_remove) > 0)
        quick_wins ==
            [i \in 1..Len(chosen) |->
                [ listing |-> IF Len(chosen[i].listing_title) > 50
                              THEN SubSeq(chosen[i].listing_title, 1, 50)
                                   \o <<".", ".", ".">>
                              ELSE chosen[i].listing_title,
                  action |-> <<"Remove ", Len(chosen[i].keywords_to_remove),
                               " low-value keywords">>,
                  impact |-> chosen[i].expected_improvement,
                  effort |-> "5 minutes" ]]
    IN  SubSeq(quick_wins, 1, IF Len(quick_wins) < 5 THEN Len(quick_wins) ELSE 5)

\* _generate_strategic_recommendations(keyword_analyses), the argument named
\* analyses
_generate_strategic_recommendations(analyses) ==
    LET remove_count == Cardinality({i \in 1..Len(analyses) :
                            analyses[i].action_recommendation = "Remove"})
        replace_count == Cardinality({i \in 1..Len(analyses) :
                            analyses[i].action_recommendation = "Replace"})
        overused == SelectSeq(analyses,
                              LAMBDA analysis :
                                  analysis.frequency_across_listings > 10)
    IN  (IF remove_count > 5
         THEN << <<"Portfolio Cleanup: Remove ", remove_count,
                   " low-value keywords to free up tag space">> >>
         ELSE <<>>)
        \o (IF replace_count > 3
            THEN << <<"Keyword Modernization: Replace ", replace_count,
                      " underperforming keywords with trending alternatives">> >>
            ELSE <<>>)
        \o (IF overused # <<>>
            THEN << <<"Keyword Diversification: Reduce overuse of common terms across listings">> >>
            ELSE <<>>)
        \o << <<"Trend Alignment: Focus on government/bureaucrat niche keywords with rising trends">> >>

\* round(num / den, 1) in tenths, to the nearest tenth and to the even one
\* when num / den lies halfway (a float that lies halfway is exact)
RoundTenths(num, den) ==
    LET q == (10 * num) \div den
        r == (10 * num) % den
    IN  IF 2 * r < den THEN q
        ELSE IF 2 * r > den THEN q + 1
        ELSE IF q % 2 = 0 THEN q ELSE q + 1

\* generate_portfolio_report(listings_data), the keyword set being visited
\* in order; avg_keywords_per_listing is in tenths
generate_portfolio_report(db, listings_data, order) ==
    LET analyses == analyze_keyword_portfolio(db, listings_data, order)
        listing_optimizations ==
            [i \in 1..Len(listings_data) |->
                optimize_listing_keywords(db, listings_data[i])]
        total_keywords == Len(AllKeywords(listings_data))
        avg_keywords_per_listing ==
            IF listings_data # <<>>
            THEN RoundTenths(total_keywords, Len(listings_data))
            ELSE 0
        high_priority_listings ==
            SelectSeq(listing_optimizations,
                      LAMBDA opt : opt.optimization_priority = "High")
    IN  [ portfolio_summary |->
              [ total_listings |-> Len(listings_data),
                total_unique_keywords |-> Cardinality(UniqueKeywords(listings_data)),
                avg_keywords_per_listing |-> avg_keywords_per_listing,
                high_priority_optimizations |-> Len(high_priority_listings) ],
          keyword_analyses |-> analyses,
          listing_optimizations |-> listing_optimizations,
          portfolio_gaps |-> _identify_portfolio_gaps(listings_data),
          quick_wins |-> _identify_quick_wins(listing_optimizations),
          strategic_recommendations |->
              _generate_strategic_recommendations(analyses) ]

(***************************************************************************)
(* The public operations of the keyword optimizer, one call each.          *)
(***************************************************************************)
MaxReportListings == 2

\* a listing without tags, one with an empty tag list and three with tags
\* that share keywords
PortfolioListings ==
    { [title |-> <<"O","P","S","E","C"," ","S","t","i","c","k","e","r">>],
      [title |-> <<"P","o","l","i","t","i","c","a","l"," ","h","a","t">>, tags |-> <<>>],
      [title |-> <<"P","o","l","i","t","i","c","a","l"," ","h","a","t">>, tags |-> << <<"b","e","a","u","t","i","f","u","l">>, <<"F","u","n","n","y">> >>],
      [tags |-> << <<"f","u","n","n","y">>, <<"s","a","t","i","r","e">> >>],
      [title |-> <<"B","u","r","e","a","u","c","r","a","t"," ","T","e","e"," ","S","h","i","r","t">>,
       tags |-> << <<"a","w","e","s","o","m","e">>, <<"b","e","a","u","t","i","f","u","l">>, <<"s","a","t","i","r","e">> >>] }

OptimizerCalls ==
    {<<"optimize_listing_keywords", <<listing>>>> : listing \in OptimizerListings}
    \cup
    {<<"analyze_keyword_portfolio", <<listings_data>>>> :
        listings_data \in SeqsUpTo(PortfolioListings, MaxReportListings)}
    \cup
    {<<"generate_portfolio_report", <<listings_data>>>> :
        listings_data \in SeqsUpTo(PortfolioListings, MaxReportListings)}

InitOptimizer ==
    /\ keyword_performance_db = _initialize_keyword_database
    /\ config = NoConfig
    /\ capability_profile = NoProfile
    /\ InitUtilities
    /\ pc = "call"
    /\ \E c \in OptimizerCalls : op = c[1] /\ args = c[2]
    /\ ret = <<>>

Call_optimize_listing_keywords ==
    /\ pc = "call"
    /\ op = "optimize_listing_keywords"
    /\ LET tags == DictGet(args[1], "tags", <<>>)
       IN  IF \E i \in 1..Len(tags) :
                 Raised(SingleListingAnalysis(keyword_performance_db, tags[i]))
           THEN pc' = "raised" /\ ret' = "ZeroDivisionError"
           ELSE /\ pc' = "done"
                /\ ret' = optimize_listing_keywords(keyword_performance_db, args[1])
    /\ UNCHANGED <<keyword_performance_db, config, capability_profile, op, args,
                   utilities>>

Call_generate_portfolio_report ==
    /\ pc = "call"
    /\ op = "generate_portfolio_report"
    /\ \E order \in IterationOrders(UniqueKeywords(args[1])) :
          IF \E i \in 1..Len(order) :
                Raised(keyword_analyses(keyword_performance_db, args[1], order)[i])
          THEN pc' = "raised" /\ ret' = "ZeroDivisionError"
          ELSE /\ pc' = "done"
               /\ ret' = generate_portfolio_report(keyword_performance_db,
                                                   args[1], order)
    /\ UNCHANGED <<keyword_performance_db, config, capability_profile, op, args,
                   utilities>>

NextOptimizer ==
    \/ Call_analyze_keyword_portfolio
    \/ Call_optimize_listing_keywords
    \/ Call_generate_portfolio_report

SpecOptimizer == InitOptimizer /\ [][NextOptimizer]_vars

\* C22: every call of the keyword assessment made by
\* analyze_keyword_portfolio, optimize_listing_keywords and
\* generate_portfolio_report has totalListings > 0, so that none of them
\* ends in the division error; for an empty listing set or listings
\* without tags they return an empty assessment list and a summary with a
\* zero average.
C22_TotalListingsPositive ==
    /\ pc # "raised"
    /\ Done("analyze_keyword_portfolio") =>
          /\ ret # <<>> => Len(args[1]) > 0
          /\ AllKeywords(args[1]) = <<>> => ret = <<>>
    /\ Done("optimize_listing_keywords") =>
          \A keyword \in ToSet(DictGet(args[1], "tags", <<>>)) :
              ~Raised(SingleListingAnalysis(keyword_performance_db, keyword))
    /\ Done("generate_portfolio_report") =>
          /\ ret.keyword_analyses # <<>> => Len(args[1]) > 0
          /\ AllKeywords(args[1]) = <<>> =>
                /\ ret.keyword_analyses = <<>>
                /\ ret.portfolio_summary.total_listings = Len(args[1])
                /\ ret.portfolio_summary.total_unique_keywords = 0
                /\ ret.portfolio_summary.avg_keywords_per_listing = 0

\* the report of a portfolio whose only listing has no tags
C22_Witness ==
    /\ Done("generate_portfolio_report")
    /\ Len(args[1]) = 1
    /\ "tags" \notin DOMAIN args[1][1]
    /\ ret.keyword_analyses = <<>>
    /\ ret.portfolio_summary.avg_keywords_per_listing = 0

\* C24: optimize_listing_keywords returns keywords_to_remove and the keys
\* of keywords_to_replace as disjoint subsets of the listing's tags, maps
\* each replaced keyword to the first entry of its replacement table, and
\* returns at most 3 keywords_to_add, without duplicates and none equal to
\* a current tag up to case; optimization_priority is High iff removals +
\* replacements + additions >= 5, Medium iff the total is 3 or 4, else Low.
C24_OptimizationShape ==
    Done("optimize_listing_keywords") =>
        LET tags == ToSet(DictGet(args[1], "tags", <<>>))
            removed == ToSet(ret.keywords_to_remove)
            replaced == DOMAIN ret.keywords_to_replace
            added == ret.keywords_to_add
            total == Len(ret.keywords_to_remove) + Cardinality(replaced) + Len(added)
        IN  /\ removed \subseteq tags
            /\ replaced \subseteq tags
            /\ removed \cap replaced = {}
            /\ \A keyword \in replaced :
                  /\ KeywordClean(keyword) \in DOMAIN replacements
                  /\ replacements[KeywordClean(keyword)] # <<>>
                  /\ ret.keywords_to_replace[keyword]
                        = replacements[KeywordClean(keyword)][1]
            /\ Len(added) <= 3
            /\ \A i, j \in 1..Len(added) : added[i] = added[j] => i = j
            /\ \A i \in 1..Len(added) : \A tag \in tags : Lower(added[i]) # Lower(tag)
            /\ ret.optimization_priority = "High" <=> total >= 5
            /\ ret.optimization_priority = "Medium" <=> total \in {3, 4}
            /\ ret.optimization_priority = "Low" <=> total < 3

\* a listing with a removal, a replacement and additions, of High priority
C24_Witness ==
    /\ Done("optimize_listing_keywords")
    /\ ret.keywords_to_remove # <<>>
    /\ DOMAIN ret.keywords_to_replace # {}
    /\ Len(ret.keywords_to_add) = 3
    /\ ret.optimization_priority = "High"

\* C26: in optimize_listing_keywords every tag is assessed with frequency 1
\* of 1, so a tag is recommended Keep only if its catalog relevance is at
\* least 9: every tag of relevance 4..8, a tag unknown to the catalog
\* (default relevance 5) included, is classified Replace, and a tag
\* classified Replace whose replacement table entry is empty is placed
\* neither in keywords_to_remove nor in keywords_to_replace.
C26_SingleListingClassification ==
    Done("optimize_listing_keywords") =>
        \A tag \in ToSet(DictGet(args[1], "tags", <<>>)) :
            LET relevance == DictGet(keyword_performance_db, KeywordClean(tag),
                                     DefaultKeywordData).relevance
                analysis == SingleListingAnalysis(keyword_performance_db, tag)
                table == DictGet(replacements, KeywordClean(tag), <<>>)
            IN  /\ analysis.frequency_across_listings = 1
                /\ analysis.action_recommendation = "Keep" => relevance >= 9
                /\ relevance \in 4..8 => analysis.action_recommendation = "Replace"
                /\ KeywordClean(tag) \notin DOMAIN keyword_performance_db
                      => /\ relevance = 5
                         /\ analysis.action_recommendation = "Replace"
                /\ (analysis.action_recommendation = "Replace" /\ table = <<>>)
                      => /\ tag \notin ToSet(ret.keywords_to_remove)
                         /\ tag \notin DOMAIN ret.keywords_to_replace

\* a listing whose tags are a relevance-4 keyword, an unknown keyword and a
\* relevance-8 keyword, none with a replacement: nothing is removed or
\* replaced
C26_Witness ==
    /\ Done("optimize_listing_keywords")
    /\ DictGet(args[1], "tags", <<>>) = << <<"q","u","a","l","i","t","y">>, <<"n","e","w">>, <<"g","i","f","t">> >>
    /\ ret.keywords_to_remove = <<>>
    /\ DOMAIN ret.keywords_to_replace = {}

(***************************************************************************)
(* Source data: the market research configuration file                     *)
(* (market_research_agent.py, _load_config), the listings CSV              *)
(* (etsy_csv_analyzer.py) and the orchestrator's loading of it             *)
(* (EtsyAnalyzer/multi_agent_analyzer.py).                                 *)
(*                                                                         *)
(* A file is a record with the field exists; a configuration file that     *)
(* exists is valid JSON (json) or not, a CSV file that exists holds rows,  *)
(* each a record of its named columns with str values.  IMAGES counts the  *)
(* non-empty IMAGE1..IMAGE10 columns.  A value that can be None is a       *)
(* record whose field returned names what was returned.                    *)
(***************************************************************************)
MaxRows == 2

None == [returned |-> "None"]

NoFile == [exists |-> FALSE]

_load_config_noFallback(config_file) ==
    IF ~config_file.exists THEN [raised |-> "FileNotFoundError"]
    ELSE IF ~config_file.valid THEN [raised |-> "JSONDecodeError"]
    ELSE config_file.json

_load_config(config_file) ==
    IF ~config_file.exists THEN _default_config
    ELSE IF ~config_file.valid THEN [raised |-> "JSONDecodeError"]
    ELSE config_file.json

\* str.split(sep) for a separator of one character
RECURSIVE Split(_, _)
Split(s, sep) ==
    IF \A i \in 1..Len(s) : s[i] # sep THEN <<s>>
    ELSE LET i == CHOOSE k \in 1..Len(s) :
                     s[k] = sep /\ \A j \in 1..(k - 1) : s[j] # sep
         IN  <<SubSeq(s, 1, i - 1)>> \o Split(SubSeq(s, i + 1, Len(s)), sep)

Digits == <<"0", "1", "2", "3", "4", "5", "6", "7", "8", "9">>

DigitValue(c) == (CHOOSE d \in 1..10 : Digits[d] = c) - 1

RECURSIVE DecimalValue(_)
DecimalValue(s) ==
    IF s = <<>> THEN 0
    ELSE 10 * DecimalValue(SubSeq(s, 1, Len(s) - 1)) + DigitValue(s[Len(s)])

\* float(row.get('PRICE', 0) or 0), as [cents], for a PRICE column written
\* as digits with at most two decimals; any other text is a ValueError
ParsePrice(text) ==
    IF text = <<>> THEN [cents |-> 0]
    ELSE LET parts == Split(text, ".")
             whole == parts[1]
             cents == IF Len(parts) = 2 THEN parts[2] ELSE <<>>
         IN  IF /\ Len(parts) <= 2
                /\ \A i \in 1..Len(text) : text[i] \in ToSet(Digits) \cup {"."}
                /\ Len(whole) + Len(cents) > 0
                /\ Len(cents) <= 2
             THEN [cents |-> 100 * DecimalValue(whole)
                             + (IF Len(cents) = 1 THEN 10 ELSE 1)
                               * DecimalValue(cents)]
             ELSE [raised |-> "ValueError"]

ParseTags(tag_string) ==
    IF tag_string = <<>> THEN <<>>
    ELSE LET parts == IF "," \in ToSet(tag_string) THEN Split(tag_string, ",")
                      ELSE IF "|" \in ToSet(tag_string) THEN Split(tag_string, "|")
                      ELSE <<tag_string>>
         IN  [i \in 1..Len(parts) |-> Strip(parts[i])]

Listing(row) ==
    [title |-> row.TITLE,
     price |-> ParsePrice(row.PRICE).cents,
     views |-> 0,
     favorites |-> 0,
     sales |-> 0,
     tags |-> ParseTags(row.TAGS),
     category |-> "General",
     photos_count |-> row.IMAGES,
     description_length |-> Len(row.DESCRIPTION)]

parse_etsy_csv(csv_file) ==
    IF ~csv_file.exists THEN None
    ELSE LET rows == SelectSeq(csv_file.rows, LAMBDA row : row.TITLE # <<>>)
         IN  IF \E i \in 1..Len(rows) : Raised(ParsePrice(rows[i].PRICE))
             THEN None
             ELSE [returned |-> "list",
                   listings |-> [i \in 1..Len(rows) |-> Listing(rows[i])]]

ShopData(listings) ==
    [total_listings |-> Len(listings),
     total_sales |-> 0,
     avg_rating |-> 0,
     listings |-> listings]

\* the analyzer's and the agents' results are not modelled: the call is
\* recorded in the field invoked
analyze_from_csv(csv_file) ==
    LET listings == parse_etsy_csv(csv_file)
    IN  IF listings.returned = "None" \/ listings.listings = <<>>
        THEN [returned |-> "None", invoked |-> <<>>]
        ELSE [returned |-> "analysis",
              shop_data |-> ShopData(listings.listings),
              invoked |-> <<"analyzer.generate_comprehensive_analysis">>]

_load_shop_data_emptyShop(csv_file) ==
    LET listings == parse_etsy_csv(csv_file)
    IN  IF listings.returned = "None"
        THEN [returned |-> "dict", shop_data |-> ShopData(<<>>)]
        ELSE IF listings.listings = <<>> THEN None
        ELSE [returned |-> "dict", shop_data |-> ShopData(listings.listings)]

_load_shop_data(csv_file) ==
    LET listings == parse_etsy_csv(csv_file)
    IN  IF listings.returned = "None" \/ listings.listings = <<>>
        THEN None
        ELSE [returned |-> "dict", shop_data |-> ShopData(listings.listings)]

run_comprehensive_analysis(csv_file) ==
    LET shop_data == _load_shop_data(csv_file)
    IN  IF shop_data.returned = "None"
        THEN [returned |-> "None", invoked |-> <<>>]
        ELSE [returned |-> "integrated_analysis",
              shop_data |-> shop_data.shop_data,
              invoked |-> <<"base_analyzer.generate_comprehensive_analysis",
                            "keyword_agent.generate_portfolio_report",
                            "trends_agent.generate_trend_report",
                            "product_agent.generate_expansion_roadmap">>]

ConfigFiles ==
    {NoFile, [exists |-> TRUE, valid |-> FALSE]}
    \cup {[exists |-> TRUE, valid |-> TRUE, json |-> c] : c \in ConfigInputs}

CsvRows ==
    { [TITLE |-> <<"O","P","S","E","C"," ","S","t","i","c","k","e","r">>, DESCRIPTION |-> <<"v","i","n","y","l">>,
       PRICE |-> <<"4",".","5","0">>, TAGS |-> <<"o","p","s","e","c",","," ","s","e","c","u","r","i","t","y">>, IMAGES |-> 2],
      [TITLE |-> <<>>, DESCRIPTION |-> <<"x">>,
       PRICE |-> <<"1">>, TAGS |-> <<"a">>, IMAGES |-> 0],
      [TITLE |-> <<"P","o","l","i","t","i","c","a","l"," ","h","a","t">>, DESCRIPTION |-> <<>>,
       PRICE |-> <<>>, TAGS |-> <<"h","a","t","|","c","a","p"," ">>, IMAGES |-> 1],
      [TITLE |-> <<"M","u","g">>, DESCRIPTION |-> <<"m">>,
       PRICE |-> <<"a","b","c">>, TAGS |-> <<"m","u","g">>, IMAGES |-> 0],
      [TITLE |-> <<"T","e","e">>, DESCRIPTION |-> <<"T","e","e">>,
       PRICE |-> <<"1", "2">>, TAGS |-> <<>>, IMAGES |-> 0] }

CsvFiles ==
    {NoFile} \cup {[exists |-> TRUE, rows |-> rows] : rows \in SeqsUpTo(CsvRows, MaxRows)}

SourceCalls ==
    {<<"EtsyMarketResearcher", <<config_file>>>> : config_file \in ConfigFiles}
    \cup
    {<<method, <<csv_file>>>> :
        method \in {"parse_etsy_csv", "analyze_from_csv", "run_comprehensive_analysis"},
        csv_file \in CsvFiles}

\* no researcher is built yet
InitSources ==
    /\ keyword_performance_db = _initialize_keyword_database
    /\ config = NoConfig
    /\ capability_profile = NoProfile
    /\ InitUtilities
    /\ pc = "call"
    /\ \E c \in SourceCalls : op = c[1] /\ args = c[2]
    /\ ret = None

Call_EtsyMarketResearcher ==
    /\ pc = "call"
    /\ op = "EtsyMarketResearcher"
    /\ IF Raised(_load_config(args[1]))
       THEN /\ pc' = "raised"
            /\ ret' = [returned |-> _load_config(args[1]).raised]
            /\ UNCHANGED <<config, capability_profile>>
       ELSE /\ pc' = "done"
            /\ config' = _load_config(args[1])
            /\ capability_profile' = _load_capability_profile
            /\ ret' = None
    /\ UNCHANGED <<keyword_performance_db, op, args, utilities>>

Call_parse_etsy_csv ==
    /\ pc = "call"
    /\ op = "parse_etsy_csv"
    /\ pc' = "done"
    /\ ret' = parse_etsy_csv(args[1])
    /\ UNCHANGED <<keyword_performance_db, config, capability_profile, op, args,
                   utilities>>

Call_analyze_from_csv ==
    /\ pc = "call"
    /\ op = "analyze_from_csv"
    /\ pc' = "done"
    /\ ret' = analyze_from_csv(args[1])
    /\ UNCHANGED <<keyword_performance_db, config, capability_profile, op, args,
                   utilities>>

Call_run_comprehensive_analysis ==
    /\ pc = "call"
    /\ op = "run_comprehensive_analysis"
    /\ pc' = "done"
    /\ ret' = run_comprehensive_analysis(args[1])
    /\ UNCHANGED <<keyword_performance_db, config, capability_profile, op, args,
                   utilities>>

NextSources ==
    \/ Call_EtsyMarketResearcher
    \/ Call_parse_etsy_csv
    \/ Call_analyze_from_csv
    \/ Call_run_comprehensive_analysis

SpecSources == InitSources /\ [][NextSources]_vars

\* C23: unavailable source data is recovered without raising: with the
\* configuration file missing the researcher is built with the default
\* configuration; with the listings CSV missing parse_etsy_csv yields no
\* listings, analyze_from_csv and run_comprehensive_analysis return None
\* and no analysis agent is invoked.
C23_MissingSourceRecovered ==
    (pc # "call" /\ ~args[1].exists) =>
        /\ pc = "done"
        /\ op = "EtsyMarketResearcher" => config = _default_config
        /\ op = "parse_etsy_csv" => ret = None
        /\ op \in {"analyze_from_csv", "run_comprehensive_analysis"} =>
              ret.returned = "None" /\ ret.invoked = <<>>

\* the orchestrator has returned None for a missing CSV
C23_Witness ==
    /\ Done("run_comprehensive_analysis")
    /\ ~args[1].exists
    /\ ret.returned = "None"
    /\ ret.invoked = <<>>

(***************************************************************************)
(* CacheManager (etsy-agents/shared/utilities/agent_utils.py).             *)
(*                                                                         *)
(* cache_dir maps a key to its file <key>.json: content is the JSON        *)
(* document in the file, st_mtime the clock value of its last write.  The  *)
(* clock counts hours, so "file_age > max_age_hours * 3600" is             *)
(* clock - st_mtime > max_age_hours.  A Python value is a record whose     *)
(* field type names its type; a JSON document is the Python value          *)
(* json.load makes of it (an array is a list, an object a dict with str    *)
(* keys), or Truncated for a file json.dump left unfinished.               *)
(***************************************************************************)
MaxClock == 3

PyNone == [type |-> "NoneType"]

PyStr(s) == [type |-> "str", str |-> s]

PyInt(n) == [type |-> "int", int |-> n]

PyList(items) == [type |-> "list", items |-> items]

PyTuple(items) == [type |-> "tuple", items |-> items]

PyDict(entries) == [type |-> "dict", entries |-> entries]

Truncated == [type |-> "truncated"]

\* the key json.dumps writes for a dict key: a str stays, an int becomes
\* its decimal text, a tuple is a TypeError
JsonKey(key) ==
    IF key.type = "str" THEN key
    ELSE IF key.type = "int" THEN PyStr(Digits[key.int + 1])
    ELSE [raised |-> "TypeError"]

\* the document json.dump(data, f, default=str) writes
RECURSIVE json_dump(_)
json_dump(data) ==
    IF data.type = "tuple" THEN PyList(data.items)
    ELSE IF data.type = "dict"
    THEN IF \E i \in 1..Len(data.entries) : Raised(JsonKey(data.entries[i].key))
         THEN [raised |-> "TypeError"]
         ELSE PyDict([i \in 1..Len(data.entries) |->
                         [key |-> JsonKey(data.entries[i].key),
                          value |-> json_dump(data.entries[i].value)]])
    ELSE data

json_load(document) ==
    IF document = Truncated THEN [raised |-> "JSONDecodeError"] ELSE document

CacheSet(dir, key, data, now) ==
    [k \in DOMAIN dir \cup {key} |->
        IF k # key THEN dir[k]
        ELSE [content |-> IF Raised(json_dump(data)) THEN Truncated
                          ELSE json_dump(data),
              st_mtime |-> now]]

Unlink(dir, key) == [k \in DOMAIN dir \ {key} |-> dir[k]]

Expired(dir, key, max_age_hours, now) ==
    now - dir[key].st_mtime > max_age_hours

CacheGet(dir, key, max_age_hours, now) ==
    IF key \notin DOMAIN dir THEN PyNone
    ELSE IF Expired(dir, key, max_age_hours, now) THEN PyNone
    ELSE IF Raised(json_load(dir[key].content)) THEN PyNone
    ELSE json_load(dir[key].content)

CacheKeys == {"test_key", "other_key"}

CacheData ==
    { PyDict(<<[key |-> PyStr("test"), value |-> PyStr("data")]>>),
      PyStr("data"),
      PyList(<<1, 2>>),
      PyTuple(<<1, 2>>),
      PyDict(<<[key |-> PyInt(1), value |-> PyStr("data")]>>),
      PyDict(<<[key |-> PyTuple(<<1, 2>>), value |-> PyStr("data")]>>) }

DefaultMaxAge == 24

MaxAgeInputs == {0, 1, DefaultMaxAge}

InitCache ==
    /\ keyword_performance_db = <<>>
    /\ config = NoConfig
    /\ capability_profile = NoProfile
    /\ InitUtilities
    /\ pc = "done"
    /\ op = "CacheManager"
    /\ args = <<>>
    /\ ret = PyNone

cache_set ==
    /\ \E key \in CacheKeys, data \in CacheData :
          /\ op' = "set"
          /\ args' = <<key, data>>
          /\ cache_dir' = CacheSet(cache_dir, key, data, clock)
          /\ IF Raised(json_dump(data))
             THEN pc' = "raised" /\ ret' = PyStr("TypeError")
             ELSE pc' = "done" /\ ret' = PyNone
    /\ UNCHANGED <<keyword_performance_db, config, capability_profile, clock,
                   performance_history, current_product_analysis>>

cache_get ==
    /\ \E key \in CacheKeys, max_age_hours \in MaxAgeInputs :
          /\ op' = "get"
          /\ args' = <<key, max_age_hours>>
          /\ pc' = "done"
          /\ ret' = CacheGet(cache_dir, key, max_age_hours, clock)
          /\ cache_dir' = IF /\ key \in DOMAIN cache_dir
                             /\ Expired(cache_dir, key, max_age_hours, clock)
                          THEN Unlink(cache_dir, key)
                          ELSE cache_dir
    /\ UNCHANGED <<keyword_performance_db, config, capability_profile, clock,
                   performance_history, current_product_analysis>>

\* an hour passes
Tick ==
    /\ clock < MaxClock
    /\ clock' = clock + 1
    /\ UNCHANGED <<keyword_performance_db, config, capability_profile, pc, op,
                   args, ret, cache_dir, performance_history,
                   current_product_analysis>>

NextCache == cache_set \/ cache_get \/ Tick

SpecCache == InitCache /\ [][NextCache]_vars

\* C25: after set(k, d), get(k) returns d as long as the entry's age is at
\* most max_age_hours; a get on an older entry returns None and deletes
\* the entry, so every later get(k) returns None until the next set(k)
\* (an entry appears only by set); get on a key without entry returns None
\* and creates no entry; set on an existing key replaces its data and
\* restarts its age.
C25_CacheContract ==
    [][ /\ (op' = "set" /\ clock' = clock) =>
              /\ args'[1] \in DOMAIN cache_dir'
              /\ cache_dir'[args'[1]].st_mtime = clock
        /\ (op = "set" /\ op' = "get" /\ clock' = clock /\ args'[1] = args[1]
            /\ ~Expired(cache_dir, args[1], args'[2], clock)) =>
              ret' = args[2]
        /\ (op' = "get" /\ clock' = clock /\ args'[1] \in DOMAIN cache_dir
            /\ Expired(cache_dir, args'[1], args'[2], clock)) =>
              /\ ret' = PyNone
              /\ args'[1] \notin DOMAIN cache_dir'
        /\ (op' = "get" /\ clock' = clock /\ args'[1] \notin DOMAIN cache_dir) =>
              /\ ret' = PyNone
              /\ cache_dir' = cache_dir
        /\ \A k \in CacheKeys :
              (k \notin DOMAIN cache_dir /\ k \in DOMAIN cache_dir') =>
                  op' = "set" /\ args'[1] = k
      ]_vars

(***************************************************************************)
(* ProductExpanderAgent                                                    *)
(* (EtsyAnalyzer/etsy-agents/agents/product_expander/                      *)
(* product_expander_agent.py).                                             *)
(*                                                                         *)
(* opportunity_score is kept in tenths, a price in cents.  Of a            *)
(* ProductOpportunity the model keeps product_name, product_category and   *)
(* opportunity_score, of a DigitalProductSuite its suite_name; the other   *)
(* fields are literals no operation reads.  implementation_priority and    *)
(* potential_sales_increase are sequences of characters, because the       *)
(* variations are sorted by comparing them as str.                         *)
(***************************************************************************)
MaxProducts == 3

\* the characters of the compared texts, in code point order
CodePoints ==
    << "%", "-", "0", "1", "2", "3", "4", "5", "6", "7", "8", "9",
       "A", "B", "C", "D", "E", "F", "G", "H", "I", "J", "K", "L", "M",
       "N", "O", "P", "Q", "R", "S", "T", "U", "V", "W", "X", "Y", "Z",
       "a", "b", "c", "d", "e", "f", "g", "h", "i", "j", "k", "l", "m",
       "n", "o", "p", "q", "r", "s", "t", "u", "v", "w", "x", "y", "z" >>

Ord(c) == CHOOSE i \in 1..Len(CodePoints) : CodePoints[i] = c

\* a < b for two str
StrLess(a, b) ==
    \/ Len(a) < Len(b) /\ SubSeq(b, 1, Len(a)) = a
    \/ \E i \in 1..Min2(Len(a), Len(b)) :
          /\ SubSeq(a, 1, i - 1) = SubSeq(b, 1, i - 1)
          /\ Ord(a[i]) < Ord(b[i])

pod_opportunities ==
    << [product_name |-> "Government Meeting Bingo Hoodie",
       product_category |-> "POD Apparel", opportunity_score |-> 85],
       [product_name |-> "NATO Phonetic Alphabet Learning Tank Top",
       product_category |-> "POD Apparel", opportunity_score |-> 78],
       [product_name |-> "Civil Service Pride Polo Shirt",
       product_category |-> "POD Apparel", opportunity_score |-> 82],
       [product_name |-> "Cybersecurity Awareness Water Bottle",
       product_category |-> "POD Accessories", opportunity_score |-> 75],
       [product_name |-> "Government Acronym Decoder Mousepad",
       product_category |-> "POD Accessories", opportunity_score |-> 80],
       [product_name |-> "Federal Employee ID Badge Holder",
       product_category |-> "POD Accessories", opportunity_score |-> 87],
       [product_name |-> "Government Efficiency Paradox Wall Art",
       product_category |-> "POD Home Decor", opportunity_score |-> 73],
       [product_name |-> "Democracy Defender Throw Pillow",
       product_category |-> "POD Home Decor", opportunity_score |-> 70] >>

digital_opportunities ==
    << [product_name |-> "Government Meeting Bingo Printable Set",
       product_category |-> "Digital Download", opportunity_score |-> 95],
       [product_name |-> "NATO Phonetic Alphabet Reference Cards",
       product_category |-> "Digital Download", opportunity_score |-> 88],
       [product_name |-> "Civil Service Career Milestone Certificates",
       product_category |-> "Digital Download", opportunity_score |-> 92],
       [product_name |-> "Government Employee LinkedIn Banner Templates",
       product_category |-> "Digital Download", opportunity_score |-> 80],
       [product_name |-> "Political Advocacy Instagram Story Templates",
       product_category |-> "Digital Download", opportunity_score |-> 83],
       [product_name |-> "Government Process Flowchart Templates",
       product_category |-> "Digital Download", opportunity_score |-> 85],
       [product_name |-> "Cybersecurity Awareness Poster Set",
       product_category |-> "Digital Download", opportunity_score |-> 90] >>

\* sorted(opportunities, key=lambda x: x.opportunity_score, reverse=True)
RECURSIVE SortedByScore(_)
SortedByScore(opportunities) ==
    IF opportunities = <<>> THEN <<>>
    ELSE LET n == Len(opportunities)
             x == opportunities[n]
             rest == SortedByScore(SubSeq(opportunities, 1, n - 1))
             k == Cardinality({i \in 1..Len(rest) :
                                 rest[i].opportunity_score >= x.opportunity_score})
         IN  SubSeq(rest, 1, k) \o <<x>> \o SubSeq(rest, k + 1, Len(rest))

generate_pod_opportunities == SortedByScore(pod_opportunities)

generate_digital_opportunities == SortedByScore(digital_opportunities)

VariationsOf(product) ==
    (IF Contains(Lower(product), <<"o","p","s","e","c">>)
     THEN << [base_product |-> product,
               variation_type |-> "Industry Specific",
               description |-> "Create versions for different agencies (CIA, NSA, FBI, DOD)",
               additional_effort |-> "Low",
               potential_sales_increase |-> <<"4","0","-","6","0","%">>,
               implementation_priority |-> <<"H","i","g","h">>],
             [base_product |-> product,
               variation_type |-> "Experience Level",
               description |-> "Versions for different clearance levels or experience",
               additional_effort |-> "Medium",
               potential_sales_increase |-> <<"2","5","-","3","5","%">>,
               implementation_priority |-> <<"M","e","d","i","u","m">>] >>
     ELSE <<>>)
    \o
    (IF Contains(Lower(product), <<"f","o","x","t","r","o","t"," ","d","e","l","t","a"," ","t","a","n","g","o">>)
     THEN << [base_product |-> product,
               variation_type |-> "Service Branch",
               description |-> "Military branch-specific versions (Army, Navy, Air Force, Marines)",
               additional_effort |-> "Low",
               potential_sales_increase |-> <<"5","0","-","7","0","%">>,
               implementation_priority |-> <<"H","i","g","h">>],
             [base_product |-> product,
               variation_type |-> "International",
               description |-> "NATO ally country versions with appropriate cultural adaptations",
               additional_effort |-> "High",
               potential_sales_increase |-> <<"3","0","-","5","0","%">>,
               implementation_priority |-> <<"L","o","w">>] >>
     ELSE <<>>)
    \o
    (IF Contains(Lower(product), <<"b","u","r","e","a","u","c","r","a","t">>)
     THEN << [base_product |-> product,
               variation_type |-> "Government Level",
               description |-> "Federal, state, and local government versions",
               additional_effort |-> "Low",
               potential_sales_increase |-> <<"3","5","-","4","5","%">>,
               implementation_priority |-> <<"H","i","g","h">>],
             [base_product |-> product,
               variation_type |-> "Department Specific",
               description |-> "Specific department versions (State, Treasury, Commerce, etc.)",
               additional_effort |-> "Medium",
               potential_sales_increase |-> <<"2","5","-","4","0","%">>,
               implementation_priority |-> <<"M","e","d","i","u","m">>] >>
     ELSE <<>>)

RECURSIVE AllVariations(_)
AllVariations(base_products) ==
    IF base_products = <<>> THEN <<>>
    ELSE VariationsOf(Head(base_products)) \o AllVariations(Tail(base_products))

\* (implementation_priority, potential_sales_increase) of v is less than
\* that of w, as tuples of str
VariationKeyLess(v, w) ==
    \/ StrLess(v.implementation_priority, w.implementation_priority)
    \/ /\ v.implementation_priority = w.implementation_priority
       /\ StrLess(v.potential_sales_increase, w.potential_sales_increase)

\* sorted(variations, key=..., reverse=True): descending, equal keys in
\* their original order
RECURSIVE SortedVariations(_)
SortedVariations(variations) ==
    IF variations = <<>> THEN <<>>
    ELSE LET n == Len(variations)
             x == variations[n]
             rest == SortedVariations(SubSeq(variations, 1, n - 1))
             k == Cardinality({i \in 1..Len(rest) : ~VariationKeyLess(rest[i], x)})
         IN  SubSeq(rest, 1, k) \o <<x>> \o SubSeq(rest, k + 1, Len(rest))

generate_product_variations(base_products) ==
    SortedVariations(AllVariations(base_products))

AnyIn(words, title) == \E word \in words : Contains(title, word)

CategoryOf(title) ==
    IF AnyIn({<<"s","h","i","r","t">>, <<"t","e","e">>, <<"a","p","p","a","r","e","l">>}, title) THEN "apparel"
    ELSE IF AnyIn({<<"s","t","i","c","k","e","r">>, <<"d","e","c","a","l">>}, title) THEN "stickers"
    ELSE IF AnyIn({<<"m","u","g">>, <<"c","u","p">>, <<"g","l","a","s","s">>}, title) THEN "drinkware"
    ELSE IF AnyIn({<<"h","a","t">>, <<"c","a","p">>}, title) THEN "headwear"
    ELSE "none"

ThemeOf(title, tags) ==
    IF Contains(title, <<"o","p","s","e","c">>)
       \/ \E i \in 1..Len(tags) : Contains(Lower(tags[i]), <<"s","e","c","u","r","i","t","y">>)
    THEN "cybersecurity"
    ELSE IF Contains(title, <<"b","u","r","e","a","u","c","r","a","t">>) \/ Contains(title, <<"r","o","g","u","e">>)
    THEN "bureaucrat_humor"
    ELSE IF Contains(title, <<"f","o","x","t","r","o","t">>) \/ Contains(title, <<"d","e","l","t","a">>)
            \/ Contains(title, <<"t","a","n","g","o">>)
    THEN "nato_humor"
    ELSE "none"

\* the dict that counts the listings of each kind
Counts(kinds) ==
    [kind \in ToSet(kinds) \ {"none"} |->
        Cardinality({i \in 1..Len(kinds) : kinds[i] = kind})]

all_categories ==
    {"apparel", "stickers", "drinkware", "headwear", "digital_downloads",
     "home_decor", "accessories"}

\* gaps_identified is list(set(...)); the model keeps the set, the order
\* of the list being that of a set of str
analyze_current_products(listings_data) ==
    LET title(i) == Lower(DictGet(listings_data[i], "title", <<>>))
        tags(i) == DictGet(listings_data[i], "tags", <<>>)
        categories == [i \in 1..Len(listings_data) |-> CategoryOf(title(i))]
        themes == [i \in 1..Len(listings_data) |-> ThemeOf(title(i), tags(i))]
    IN  [current_categories |-> Counts(categories),
         design_themes |-> Counts(themes),
         target_audiences |-> {},
         price_points |-> [i \in 1..Len(listings_data) |->
                              DictGet(listings_data[i], "price", 0)],
         successful_patterns |-> <<>>,
         gaps_identified |-> all_categories \ DOMAIN Counts(categories)]

create_digital_product_suites ==
    << [suite_name |-> "New Federal Employee Starter Pack"],
       [suite_name |-> "Cybersecurity Professional Toolkit"] >>

ImmediateScore == 85

MediumTermScore == 75

TopImmediate == 5

TopMediumTerm == 8

TopVariations == 10

generate_expansion_roadmap(listings_data) ==
    LET generated == generate_pod_opportunities \o generate_digital_opportunities
        titles == [i \in 1..Len(listings_data) |->
                      DictGet(listings_data[i], "title", <<>>)]
        immediate_opportunities ==
            SelectSeq(generated, LAMBDA opp : opp.opportunity_score >= ImmediateScore)
        medium_term_opportunities ==
            SelectSeq(generated, LAMBDA opp :
                /\ MediumTermScore <= opp.opportunity_score
                /\ opp.opportunity_score < ImmediateScore)
        long_term_opportunities ==
            SelectSeq(generated, LAMBDA opp : opp.opportunity_score < MediumTermScore)
    IN  [current_portfolio_analysis |-> analyze_current_products(listings_data),
         expansion_priorities |->
            [immediate_launch |-> Take(immediate_opportunities, TopImmediate),
             medium_term |-> Take(medium_term_opportunities, TopMediumTerm),
             long_term_exploration |-> long_term_opportunities],
         product_variations |->
            Take(generate_product_variations(titles), TopVariations),
         digital_product_suites |-> create_digital_product_suites,
         implementation_timeline |->
            [week_1_2 |-> "Launch top 2 digital downloads",
             week_3_4 |-> "Add 2 high-priority POD products",
             month_2 |-> "Implement top product variations",
             month_3 |-> "Launch first digital product suite",
             quarter_2 |-> "Expand to medium-term opportunities"],
         resource_requirements |->
            [design_time |-> "10-15 hours/week for first month",
             market_research |-> "5 hours/week ongoing",
             customer_feedback_analysis |-> "3 hours/week",
             inventory_management |-> "Minimal with POD/digital"],
         success_metrics |->
            [revenue_targets |-> "30% increase in Q1, 60% in Q2",
             product_diversity |-> "Double current category count",
             customer_satisfaction |-> "Maintain 4.5+ star average",
             market_expansion |-> "Reach new customer segments"]]

ExpanderTitles ==
    { <<"O","P","S","E","C"," ","S","t","i","c","k","e","r">>,
      <<"F","o","x","t","r","o","t"," ","D","e","l","t","a"," ","T","a","n","g","o"," ","T","e","e">>,
      <<"R","o","g","u","e"," ","B","u","r","e","a","u","c","r","a","t"," ","M","u","g">>,
      <<"O","P","S","E","C"," ","B","u","r","e","a","u","c","r","a","t"," ","h","a","t">>,
      <<"P","o","l","i","t","i","c","a","l"," ","h","a","t">> }

ExpanderListings ==
    { [title |-> <<"O","P","S","E","C"," ","S","t","i","c","k","e","r">>, price |-> 450,
       tags |-> << <<"o","p","s","e","c">>, <<"s","e","c","u","r","i","t","y">> >>],
      [title |-> <<"F","o","x","t","r","o","t"," ","D","e","l","t","a"," ","T","a","n","g","o"," ","T","e","e">>,
       price |-> 2000, tags |-> <<>>],
      [title |-> <<"R","o","g","u","e"," ","B","u","r","e","a","u","c","r","a","t"," ","M","u","g">>,
       tags |-> << <<"I","T"," ","S","e","c","u","r","i","t","y">> >>],
      [title |-> <<"O","P","S","E","C"," ","B","u","r","e","a","u","c","r","a","t"," ","h","a","t">>,
       price |-> 1800, tags |-> <<>>],
      [price |-> 1500, tags |-> <<>>],
      [title |-> <<"P","o","l","i","t","i","c","a","l"," ","h","a","t">>, price |-> 1500] }

ExpanderCalls ==
    {<<"generate_product_variations", <<base_products>>>> :
        base_products \in SeqsUpTo(ExpanderTitles, MaxProducts)}
    \cup
    {<<"generate_expansion_roadmap", <<listings_data>>>> :
        listings_data \in SeqsUpTo(ExpanderListings, MaxProducts)}

InitExpander ==
    /\ keyword_performance_db = <<>>
    /\ config = NoConfig
    /\ capability_profile = NoProfile
    /\ InitUtilities
    /\ pc = "call"
    /\ \E c \in ExpanderCalls : op = c[1] /\ args = c[2]
    /\ ret = <<>>

Call_generate_product_variations ==
    /\ pc = "call"
    /\ op = "generate_product_variations"
    /\ pc' = "done"
    /\ ret' = generate_product_variations(args[1])
    /\ UNCHANGED <<keyword_performance_db, config, capability_profile, op, args,
                   utilities>>

Call_generate_expansion_roadmap ==
    /\ pc = "call"
    /\ op = "generate_expansion_roadmap"
    /\ pc' = "done"
    /\ current_product_analysis' = analyze_current_products(args[1])
    /\ ret' = generate_expansion_roadmap(args[1])
    /\ UNCHANGED <<keyword_performance_db, config, capability_profile, op, args,
                   cache_dir, clock, performance_history>>

NextExpander ==
    \/ Call_generate_product_variations
    \/ Call_generate_expansion_roadmap

SpecExpander == InitExpander /\ [][NextExpander]_vars

C27_Generated == generate_pod_opportunities \o generate_digital_opportunities

C27_Tier(opp) ==
    IF opp.opportunity_score >= ImmediateScore THEN "immediate_launch"
    ELSE IF opp.opportunity_score >= MediumTermScore THEN "medium_term"
    ELSE "long_term_exploration"

\* C27: generate_expansion_roadmap assigns every generated POD and digital
\* opportunity to exactly one tier, the one of its score (>= 8.5 immediate,
\* 7.5 <= score < 8.5 medium-term, < 7.5 long-term); immediate_launch has
\* at most 5 entries, in descending score order, and no immediate
\* opportunity left out of it scores higher than one it includes.
C27_TiersByScore ==
    Done("generate_expansion_roadmap") =>
        LET tiers == ret.expansion_priorities
            immediate == tiers.immediate_launch
        IN  /\ \A i \in 1..Len(C27_Generated) :
                  \A tier \in DOMAIN tiers :
                      InList(C27_Generated[i], tiers[tier])
                          <=> tier = C27_Tier(C27_Generated[i])
            /\ Len(immediate) <= TopImmediate
            /\ \A i, j \in 1..Len(immediate) :
                  i < j => immediate[i].opportunity_score
                              >= immediate[j].opportunity_score
            /\ \A i \in 1..Len(C27_Generated) :
                  (/\ C27_Tier(C27_Generated[i]) = "immediate_launch"
                   /\ ~InList(C27_Generated[i], immediate)) =>
                      \A j \in 1..Len(immediate) :
                          C27_Generated[i].opportunity_score
                              <= immediate[j].opportunity_score

C28_Rank(priority) ==
    IF priority = <<"H","i","g","h">> THEN 1
    ELSE IF priority = <<"M","e","d","i","u","m">> THEN 2
    ELSE 3

\* C28: generate_product_variations returns the variations ordered by
\* implementation priority, High first, then Medium, then Low, for every
\* list of base products.
C28_HighMediumLow ==
    Done("generate_product_variations") =>
        \A i, j \in 1..Len(ret) :
            i < j => C28_Rank(ret[i].implementation_priority)
                        <= C28_Rank(ret[j].implementation_priority)

(***************************************************************************)
(* EtsySEOOptimizer (etsy-agents/agents/seo_optimizer/seo_agent.py).       *)
(*                                                                         *)
(* search_visibility is kept in hundredths, click_through_rate and         *)
(* conversion_rate in ten-thousandths, the thresholds and the scoring      *)
(* weights of the configuration in hundredths; for the listings used here  *)
(* int() of the float products equals the integer quotients below.         *)
(* performance_history maps a listing_id to its list of past metrics.  A   *)
(* dict of analysis results is the sequence of its items in insertion      *)
(* order.  A recommendation is the tuple of the parts of its text.         *)
(***************************************************************************)
MaxSeoListings == 2

seo_default_config ==
    [thresholds |-> [green_growth |-> 5, yellow_decline |-> -10, red_decline |-> -20],
     scoring_weights |-> [search_visibility |-> 25, ctr |-> 20, conversion |-> 25,
                          favorites |-> 15, keywords |-> 15],
     target_metrics |-> [min_ctr |-> 2, target_conversion |-> 3, min_visibility |-> 10]]

\* view_change compared with a threshold given in hundredths
_calculate_traffic_light_status(cfg, history, listing) ==
    IF listing.listing_id \notin DOMAIN history THEN "YELLOW"
    ELSE LET historical == history[listing.listing_id]
             last == historical[Len(historical)].views
             num == IF last > 0 THEN listing.views - last ELSE 0
             den == IF last > 0 THEN last ELSE 1
         IN  IF num * 100 >= cfg.thresholds.green_growth * den THEN "GREEN"
             ELSE IF num * 100 <= cfg.thresholds.red_decline * den THEN "RED"
             ELSE IF num * 100 <= cfg.thresholds.yellow_decline * den THEN "YELLOW"
             ELSE "GREEN"

\* len(kw.split()): the number of runs of characters that are not whitespace
WordCount(kw) ==
    Cardinality({i \in 1..Len(kw) :
                    /\ kw[i] \notin Whitespace
                    /\ (i = 1 \/ kw[i - 1] \in Whitespace)})

FullTagCount == 13

_evaluate_keyword_effectiveness(keywords, tags) ==
    LET long_tail_count ==
            Cardinality({i \in 1..Len(keywords) : WordCount(keywords[i]) >= 3})
    IN  Min2(100, 50 + (IF Len(keywords) >= 10 THEN 15 ELSE 0)
                     + (IF Len(tags) = FullTagCount THEN 15 ELSE 0)
                     + Min2(20, long_tail_count * 5))

_evaluate_photo_performance(listing) ==
    Min2(100, Min2(100, (listing.photos * 100) \div 10)
              + (IF listing.click_through_rate > 300 THEN 10 ELSE 0))

_generate_recommendations(listing, scores) ==
    (IF scores.visibility < 50
     THEN << <<"Improve search visibility: Research and update keywords with higher search volume">> >>
     ELSE <<>>)
    \o (IF scores.ctr < 50
        THEN << <<"Optimize main photo: Consider A/B testing different thumbnail images">>,
                <<"Review title: Ensure it includes primary keywords and is compelling">> >>
        ELSE <<>>)
    \o (IF scores.conversion < 50
        THEN << <<"Optimize pricing: Research competitor pricing and adjust if needed">>,
                <<"Improve product descriptions: Add more detail and benefits">>,
                <<"Check shipping costs: High shipping may hurt conversions">> >>
        ELSE <<>>)
    \o (IF scores.keywords < 60
        THEN << <<"Expand keyword strategy: Add more long-tail keywords">>,
                <<"Use all 13 available tags">> >>
        ELSE <<>>)
    \o (IF listing.photos < 8
        THEN << <<"Add more photos: Current ", listing.photos, ", recommended 8-10">> >>
        ELSE <<>>)

_calculate_health_score(cfg, listing) ==
    LET weights == cfg.scoring_weights
        visibility_score == Min2(100, listing.search_visibility * 10)
        ctr_score == Min2(100, (listing.click_through_rate * 5000) \div 10000)
        conversion_score == Min2(100, (listing.conversion_rate * 3333) \div 10000)
        favorite_score ==
            Min2(100, (listing.favorites * 10000) \div Max2(1, listing.views))
        keyword_score ==
            _evaluate_keyword_effectiveness(listing.keywords, listing.tags)
    IN  [overall_score |->
            (visibility_score * weights.search_visibility
             + ctr_score * weights.ctr
             + conversion_score * weights.conversion
             + favorite_score * weights.favorites
             + keyword_score * weights.keywords) \div 100,
         search_visibility_score |-> visibility_score,
         ctr_score |-> ctr_score,
         conversion_score |-> conversion_score,
         favorite_rate_score |-> favorite_score,
         keyword_effectiveness |-> keyword_score,
         photo_performance |-> _evaluate_photo_performance(listing),
         recommendations |->
            _generate_recommendations(listing,
                [visibility |-> visibility_score, ctr |-> ctr_score,
                 conversion |-> conversion_score, favorites |-> favorite_score,
                 keywords |-> keyword_score])]

ListingResult(cfg, history, listing) ==
    [listing_id |-> listing.listing_id,
     status |-> _calculate_traffic_light_status(cfg, history, listing),
     health_score |-> _calculate_health_score(cfg, listing),
     listing_info |-> [title |-> listing.title,
                       views |-> listing.views,
                       conversion_rate |-> listing.conversion_rate,
                       ctr |-> listing.click_through_rate]]

\* results[listing.listing_id] = ...: a listing_id keeps the place of its
\* first listing and the result of its last
analyze_listing_performance(cfg, history, listings) ==
    LET first == {i \in 1..Len(listings) :
                    \A j \in 1..(i - 1) :
                        listings[j].listing_id # listings[i].listing_id}
        last(i) == CHOOSE j \in i..Len(listings) :
                      /\ listings[j].listing_id = listings[i].listing_id
                      /\ \A k \in (j + 1)..Len(listings) :
                            listings[k].listing_id # listings[i].listing_id
        position(n) == CHOOSE i \in first :
                          Cardinality({j \in first : j <= i}) = n
    IN  [n \in 1..Cardinality(first) |->
            ListingResult(cfg, history, listings[last(position(n))])]

\* sort(key=lambda x: x["score"], reverse=True)
RECURSIVE SortedPerformers(_)
SortedPerformers(performers) ==
    IF performers = <<>> THEN <<>>
    ELSE LET n == Len(performers)
             x == performers[n]
             rest == SortedPerformers(SubSeq(performers, 1, n - 1))
             k == Cardinality({i \in 1..Len(rest) : rest[i].score >= x.score})
         IN  SubSeq(rest, 1, k) \o <<x>> \o SubSeq(rest, k + 1, Len(rest))

TopPerformers == 3

TopRecommendations == 2

generate_daily_dashboard(cfg, history, listings, now) ==
    LET analysis == analyze_listing_performance(cfg, history, listings)
        count(status) ==
            Cardinality({i \in 1..Len(analysis) : analysis[i].status = status})
        green == SelectSeq(analysis, LAMBDA data : data.status = "GREEN")
        red == SelectSeq(analysis, LAMBDA data : data.status = "RED")
    IN  [date |-> now,
         total_listings |-> Len(listings),
         status_counts |-> [GREEN |-> count("GREEN"), YELLOW |-> count("YELLOW"),
                            RED |-> count("RED")],
         top_performers |->
            Take(SortedPerformers(
                    [i \in 1..Len(green) |->
                        [id |-> green[i].listing_id,
                         title |-> green[i].listing_info.title,
                         score |-> green[i].health_score.overall_score]]),
                 TopPerformers),
         attention_needed |->
            [i \in 1..Len(red) |->
                [id |-> red[i].listing_id,
                 title |-> red[i].listing_info.title,
                 recommendations |->
                    Take(red[i].health_score.recommendations, TopRecommendations)]],
         quick_wins |-> <<>>]

\* the action texts give the rate with three decimals: the listings used
\* here have rates that are multiples of 0.001
_prioritize_weekly_actions(listings) ==
    LET low == SelectSeq(listings, LAMBDA listing : listing.click_through_rate < 200)
    IN  [i \in 1..Len(low) |->
            [priority |-> "HIGH",
             action |-> <<"Fix CTR for '", low[i].title, "' (currently ",
                          low[i].click_through_rate \div 10, " thousandths)">>,
             estimated_time |-> "30 minutes",
             expected_impact |-> "Medium"]]

generate_weekly_report(cfg, history, listings, now) ==
    [week_ending |-> now,
     daily_summary |-> generate_daily_dashboard(cfg, history, listings, now),
     trend_analysis |-> [view_trend |-> "stable",
                         conversion_trend |-> "improving",
                         seasonal_factor |-> "normal"],
     keyword_opportunities |->
        <<"Add seasonal keywords for upcoming holidays",
          "Research competitor keywords",
          "Optimize for mobile search terms">>,
     priority_actions |-> _prioritize_weekly_actions(listings)]

ThirteenTags == [i \in 1..FullTagCount |-> "tag"]

SeoListings ==
    { [listing_id |-> "12345", title |-> "Handmade Ceramic Coffee Mug",
       views |-> 150, favorites |-> 12, conversion_rate |-> 670,
       click_through_rate |-> 3000, search_visibility |-> 15,
       keywords |-> << <<"c","o","f","f","e","e"," ","m","u","g">>, <<"c","e","r","a","m","i","c">> >>,
       tags |-> <<"coffee", "mug">>, photos |-> 6],
      [listing_id |-> "12345", title |-> "Ceramic Coffee Mug, second listing",
       views |-> 10, favorites |-> 0, conversion_rate |-> 0,
       click_through_rate |-> 100, search_visibility |-> 0,
       keywords |-> <<>>, tags |-> <<>>, photos |-> 0],
      [listing_id |-> "67890", title |-> "OPSEC Sticker",
       views |-> 0, favorites |-> 0, conversion_rate |-> 200,
       click_through_rate |-> 200, search_visibility |-> 5,
       keywords |-> << <<"h","a","n","d","m","a","d","e"," ","c","e","r","a","m","i","c"," ","m","u","g">>, <<"h","a","n","d","m","a","d","e"," ","c","e","r","a","m","i","c"," ","m","u","g">>, <<"h","a","n","d","m","a","d","e"," ","c","e","r","a","m","i","c"," ","m","u","g">> >>,
       tags |-> ThirteenTags, photos |-> 10],
      [listing_id |-> "24680", title |-> "Political hat",
       views |-> 105, favorites |-> 12, conversion_rate |-> 300,
       click_through_rate |-> 100, search_visibility |-> 5,
       keywords |-> << <<"c","o","f","f","e","e"," ","m","u","g">> >>,
       tags |-> <<"hat">>, photos |-> 8],
      [listing_id |-> "13579", title |-> "Bureaucrat Tee Shirt",
       views |-> 120, favorites |-> 1, conversion_rate |-> 0,
       click_through_rate |-> 0, search_visibility |-> 15,
       keywords |-> <<>>, tags |-> <<"tee">>, photos |-> 3],
      [listing_id |-> "67890", title |-> "OPSEC Sticker, large",
       views |-> 135, favorites |-> 0, conversion_rate |-> 200,
       click_through_rate |-> 200, search_visibility |-> 5,
       keywords |-> <<>>, tags |-> <<>>, photos |-> 10] }

SeoListingInputs == SeqsUpTo(SeoListings, MaxSeoListings)

\* the optimizer after construction, its configuration file missing
InitSEO ==
    /\ keyword_performance_db = <<>>
    /\ config = seo_default_config
    /\ capability_profile = NoProfile
    /\ InitUtilities
    /\ pc = "done"
    /\ op = "EtsySEOOptimizer"
    /\ args = <<>>
    /\ ret = <<>>

Call_analyze_listing_performance_recordHistory ==
    /\ \E listings \in SeoListingInputs :
          /\ op' = "analyze_listing_performance"
          /\ args' = <<listings>>
          /\ ret' = analyze_listing_performance(config, performance_history, listings)
          /\ performance_history' =
                [id \in DOMAIN performance_history
                        \cup {listings[i].listing_id : i \in 1..Len(listings)} |->
                    <<[views |-> 100]>>]
    /\ pc' = "done"
    /\ UNCHANGED <<keyword_performance_db, config, capability_profile,
                   cache_dir, clock, current_product_analysis>>

Call_analyze_listing_performance ==
    /\ \E listings \in SeoListingInputs :
          /\ op' = "analyze_listing_performance"
          /\ args' = <<listings>>
          /\ ret' = analyze_listing_performance(config, performance_history, listings)
          /\ performance_history' = performance_history
    /\ pc' = "done"
    /\ UNCHANGED <<keyword_performance_db, config, capability_profile,
                   cache_dir, clock, current_product_analysis>>

Call_generate_daily_dashboard ==
    /\ \E listings \in SeoListingInputs :
          /\ op' = "generate_daily_dashboard"
          /\ args' = <<listings>>
          /\ ret' = generate_daily_dashboard(config, performance_history, listings,
                                            clock)
    /\ pc' = "done"
    /\ UNCHANGED <<keyword_performance_db, config, capability_profile, utilities>>

Call_generate_weekly_report ==
    /\ \E listings \in SeoListingInputs :
          /\ op' = "generate_weekly_report"
          /\ args' = <<listings>>
          /\ ret' = generate_weekly_report(config, performance_history, listings,
                                          clock)
    /\ pc' = "done"
    /\ UNCHANGED <<keyword_performance_db, config, capability_profile, utilities>>

NextSEO ==
    \/ Call_analyze_listing_performance
    \/ Call_generate_daily_dashboard
    \/ Call_generate_weekly_report

SpecSEO == InitSEO /\ [][NextSEO]_vars

\* C29: no operation of EtsySEOOptimizer writes performance_history: after
\* any sequence of analyze_listing_performance, generate_daily_dashboard
\* and generate_weekly_report calls the history is empty, every listing's
\* traffic-light status is YELLOW and the dashboard's top_performers and
\* attention_needed are empty.
C29_HistoryStaysEmpty ==
    /\ performance_history = <<>>
    /\ Done("analyze_listing_performance") =>
          \A i \in 1..Len(ret) : ret[i].status = "YELLOW"
    /\ Done("generate_daily_dashboard") =>
          /\ ret.status_counts.GREEN = 0 /\ ret.status_counts.RED = 0
          /\ ret.top_performers = <<>>
          /\ ret.attention_needed = <<>>
    /\ Done("generate_weekly_report") =>
          /\ ret.daily_summary.status_counts.GREEN = 0
          /\ ret.daily_summary.status_counts.RED = 0
          /\ ret.daily_summary.top_performers = <<>>
          /\ ret.daily_summary.attention_needed = <<>>

\* a dashboard of two listings with different ids, both YELLOW
C29_Witness ==
    /\ Done("generate_daily_dashboard")
    /\ Len(args[1]) = 2
    /\ args[1][1].listing_id # args[1][2].listing_id
    /\ ret.status_counts.YELLOW = 2
    /\ ret.top_performers = <<>>

\* C30: in the summary of generate_daily_dashboard the GREEN, YELLOW and
\* RED counts sum to total_listings for every list of listings, lists in
\* which two listings share a listing_id included.
C30_CountsSumToTotal ==
    Done("generate_daily_dashboard") =>
        ret.status_counts.GREEN + ret.status_counts.YELLOW + ret.status_counts.RED
            = ret.total_listings

====
